---- MODULE Spec2Model ----
(***************************************************************************)
(* lumora-go: middleware composition, per-request context, two-tier        *)
(* service resolution, the service container, the Response builder and     *)
(* error handling, modelled from the Go sources of the core package, the   *)
(* middleware packages and the three backend adapters (net/http,           *)
(* fasthttp, gin).                                                         *)
(***************************************************************************)
EXTENDS Integers, Sequences, FiniteSets, TLC

(***************************************************************************)
(* Bounds of the model.                                                    *)
(***************************************************************************)
NumTasks == 2
MaxGlobal == 2
MaxRoutes == 2
MaxRouteMws == 1
NumWorkers == 2
MaxOps == 2
MaxCookies == 2
MaxDerived == 2
MaxPathLen == 4
MaxUses == 4

Tasks == 1..NumTasks
Workers == 1..NumWorkers

(***************************************************************************)
(* Names and values of services.  "nilSvc" is a registered nil interface   *)
(* value, which is a value like any other for the map.                     *)
(***************************************************************************)
Names == {"userService", "authService"}
AppValues == {"appSvc"}
ContainerValues == {"appSvc", "nilSvc"}

None == "none"
NoReq == "noreq"

(***************************************************************************)
(* services.Container: the map behind the RWMutex, as a function whose     *)
(* domain is the set of registered names.                                  *)
(***************************************************************************)
EmptyMap == << >>

RegisterKeep(m, name, service) ==
    IF name \in DOMAIN m THEN m
    ELSE [n \in (DOMAIN m) \cup {name} |-> IF n = name THEN service ELSE m[n]]

\* c.services[name] = service
Register(m, name, service) ==
    [n \in (DOMAIN m) \cup {name} |-> IF n = name THEN service ELSE m[n]]

GetNilIsError(m, name) ==
    IF name \in DOMAIN m /\ m[name] # "nilSvc"
    THEN [v |-> m[name], err |-> "nil"]
    ELSE [v |-> "nil", err |-> "notfound"]

\* service, exists := c.services[name]; error when it does not exist
Get(m, name) ==
    IF name \in DOMAIN m
    THEN [v |-> m[name], err |-> "nil"]
    ELSE [v |-> "nil", err |-> "notfound"]

\* MustGet: Get, panic(err) on error
MustGet(m, name) ==
    LET r == Get(m, name)
    IN IF r.err # "nil" THEN [v |-> "nil", panic |-> TRUE]
       ELSE [v |-> r.v, panic |-> FALSE]

\* _, exists := c.services[name]
Has(m, name) == name \in DOMAIN m

\* All: a fresh map holding every entry of c.services
All(m) == [n \in DOMAIN m |-> m[n]]

\* Clear: c.services = make(map)
Clear(m) == EmptyMap

(***************************************************************************)
(* Middlewares and handlers.  A handler is the sequence of its layers,     *)
(* outermost first; the last layer is the terminal handler.  Applying a    *)
(* middleware to a handler puts one layer around it.                       *)
(***************************************************************************)
AppKey == "_app_services"
ScopedKey == "_scoped_services"
HeadersKey == "_headers"
JsonBodyKey == "_jsonBody"

Mw(kind) == [kind |-> kind, svcs |-> EmptyMap, id |-> 0, key |-> ""]
Cors == Mw("cors")
Logging == Mw("logging")
ErrorHandler == Mw("errorhandler")
\* the validation middlewares store what they parsed under their key
UseHeadersWithKey(key) == [Mw("useheaders") EXCEPT !.key = key]
UseJsonBodyWithKey(key) == [Mw("usejsonbody") EXCEPT !.key = key]
UseHeaders == UseHeadersWithKey(HeadersKey)
UseJsonBody == UseJsonBodyWithKey(JsonBodyKey)
UseServices(routeServices) == [Mw("useservices") EXCEPT !.svcs = routeServices]
UseSvcUser == UseServices([n \in {"userService"} |-> "routeUser"])
UseSvcAuth == UseServices([n \in {"authService"} |-> "routeAuth"])

\* the terminal handler of the route registered r-th
Terminal(r) == <<[Mw("handler") EXCEPT !.id = r]>>

\* middlewares[i](next)
Wrap(mw, next) == <<mw>> \o next

RECURSIVE ComposeForwardLoop(_, _, _)
ComposeForwardLoop(middlewares, next, i) ==
    IF i <= Len(middlewares)
    THEN ComposeForwardLoop(middlewares, Wrap(middlewares[i], next), i + 1)
    ELSE next

RECURSIVE ComposeLoop(_, _, _, _)
\* for i := len(middlewares) - 1; i >= 0; i-- { next = middlewares[i](next) }
\* (indices 1..n here); `low` is the last index the loop visits
ComposeLoop(middlewares, next, i, low) ==
    IF i >= low
    THEN ComposeLoop(middlewares, Wrap(middlewares[i], next), i - 1, low)
    ELSE next

ComposeForward(middlewares, next) == ComposeForwardLoop(middlewares, next, 1)

ComposeSkipFirst(middlewares, next) == ComposeLoop(middlewares, next, Len(middlewares), 2)

\* Compose(middlewares...)(next)
Compose(middlewares, next) == ComposeLoop(middlewares, next, Len(middlewares), 1)

\* Apply(handler, middlewares...)
Apply(handler, middlewares) == Compose(middlewares, handler)

(***************************************************************************)
(* The application object of an adapter: a.middlewares and the routes.     *)
(***************************************************************************)
\* a slice: the array it points into, its length and its capacity;
\* []core.Middleware{} points into no array
EmptySlice == [arr |-> 0, len |-> 0, cap |-> 0]

\* an array slot nothing was stored in
NilMw == Mw("nil")

\* the capacities the allocator has for arrays of up to 16 function values
SizeClasses == {1, 2, 3, 4, 6, 8, 10, 12, 14, 16}

\* the capacity of the array append allocates for need elements when an
\* array of capacity cap is too small: twice cap, or need when that is
\* more, rounded up to a size class
GrowCap(cap, need) ==
    LET want == IF need > 2 * cap THEN need ELSE 2 * cap
    IN CHOOSE c \in SizeClasses : c >= want /\ \A d \in SizeClasses : d >= want => c <= d

\* the elements of slice s
SliceContents(arrays, s) == IF s.len = 0 THEN <<>> ELSE SubSeq(arrays[s.arr], 1, s.len)

\* append(s, items...): the items are stored after the elements of s in its
\* array when the capacity suffices, otherwise in a new array with a copy
\* of the elements; the arrays afterwards and the slice returned
GoAppend(arrays, s, items) ==
    IF items = <<>>
    THEN [arrays |-> arrays, slice |-> s]
    ELSE IF s.len + Len(items) <= s.cap
    THEN [arrays |-> [arrays EXCEPT ![s.arr] =
                        [i \in 1..s.cap |->
                            IF i > s.len /\ i <= s.len + Len(items)
                            THEN items[i - s.len] ELSE arrays[s.arr][i]]],
          slice |-> [s EXCEPT !.len = s.len + Len(items)]]
    ELSE LET all == SliceContents(arrays, s) \o items
             cap == GrowCap(s.cap, Len(all))
         IN [arrays |-> Append(arrays,
                           [i \in 1..cap |-> IF i <= Len(all) THEN all[i] ELSE NilMw]),
             slice |-> [arr |-> Len(arrays) + 1, len |-> Len(all), cap |-> cap]]

\* New(): middlewares: []core.Middleware{}, a router without routes.
\* `middlewares` is the contents of the slice a.middlewares, `slice` its
\* header and `arrays` the arrays the slices of the application point into
NewApp == [middlewares |-> <<>>, routes |-> <<>>, slice |-> EmptySlice, arrays |-> <<>>]

AllMiddlewaresRouteFirst(global, own) == own \o global

\* allMiddlewares := append(a.middlewares, middlewares...)
AllMiddlewares(global, own) == global \o own

\* a.middlewares = append(a.middlewares, middleware...)
AppUse(a, mws) ==
    LET appended == GoAppend(a.arrays, a.slice, mws)
    IN [a EXCEPT !.middlewares = SliceContents(appended.arrays, appended.slice),
                 !.slice = appended.slice,
                 !.arrays = appended.arrays]

\* Handle: combine, Apply, register the final handler with the router.
\* The append stores the route's middlewares in the array of a.middlewares
\* when it has room for them; a.middlewares itself is not assigned.
\* `applied` keeps the list Handle passed to Apply, `slice` the slice that
\* held it.
AppHandle(a, own) ==
    LET r == Len(a.routes) + 1
        appended == GoAppend(a.arrays, a.slice, own)
        allMiddlewares == AllMiddlewares(a.middlewares, own)
        finalHandler == Apply(Terminal(r), allMiddlewares)
    IN [a EXCEPT !.routes = Append(a.routes,
            [handler |-> finalHandler, applied |-> allMiddlewares,
             slice |-> appended.slice]),
                 !.arrays = appended.arrays]

RouteHandlerLazy(a, r) == Apply(Terminal(r), SliceContents(a.arrays, a.routes[r].slice))

\* the handler the router calls for route r: the finalHandler its Handle
\* call built
RouteHandler(a, r) == a.routes[r].handler

(***************************************************************************)
(* Per-request context.                                                    *)
(***************************************************************************)
Adapters == {"nethttp", "fasthttp", "gin"}

\* the container of the application (a.services)
AppRef == <<0, 0>>

NewContainerShared(t, d) == AppRef

\* services.NewContainer() called by the UseServices layer at depth d of
\* the request of task t: a fresh object
NewContainer(t, d) == <<t, d>>

\* the services of container c; a container nothing was registered in yet
\* holds none
Contents(h, c) == IF c \in DOMAIN h THEN h[c] ELSE EmptyMap

\* ctx.Set(key, value)
BagSet(b, key, value) ==
    [k \in (DOMAIN b) \cup {key} |-> IF k = key THEN value ELSE b[k]]

\* the bag of a new Context: the net/http and fasthttp adapters publish
\* the application's container, the gin adapter does not
NewBag(ad) ==
    IF ad \in {"nethttp", "fasthttp"}
    THEN BagSet(EmptyMap, AppKey, AppRef)
    ELSE EmptyMap

\* getAppServices(ctx)
getAppServices(b) == IF AppKey \in DOMAIN b THEN b[AppKey] ELSE None

\* GetScopedServices(ctx)
GetScopedServices(b) == IF ScopedKey \in DOMAIN b THEN b[ScopedKey] ELSE None

\* contextImpl.Service of each adapter
Service(ad, b, h, name) ==
    IF ad \in {"nethttp", "fasthttp"}
    THEN IF ScopedKey \in DOMAIN b /\ Get(h[b[ScopedKey]], name).err = "nil"
         THEN Get(h[b[ScopedKey]], name)
         ELSE Get(h[AppRef], name)
    ELSE Get(h[AppRef], name)

\* a MustService that never consults the scoped registry
MustServiceAppOnly(ad, b, h, name) == MustGet(h[AppRef], name)

\* contextImpl.MustService of each adapter
MustService(ad, b, h, name) ==
    IF ad \in {"nethttp", "fasthttp"}
    THEN IF ScopedKey \in DOMAIN b /\ Has(h[b[ScopedKey]], name)
         THEN MustGet(h[b[ScopedKey]], name)
         ELSE MustGet(h[AppRef], name)
    ELSE MustGet(h[AppRef], name)

\* the handler type of the adapter: func(Context) error for net/http and
\* gin, func(Context) (*Response, error) for fasthttp
ReturnsResponse(ad) == ad = "fasthttp"

(***************************************************************************)
(* Decisions of the middlewares on a request.                              *)
(***************************************************************************)
CorsNeverPreflight(rq) == FALSE

\* cors: ctx.Request().Method == "OPTIONS"
CorsPreflight(rq) == rq.method = "OPTIONS"

\* useheaders: len(issues) > 0
HeaderIssues(rq) == ~rq.hdrOK

\* usejsonbody: len(body) == 0 or len(issues) > 0
BodyIssues(rq) == ~rq.bodyOK

(***************************************************************************)
(* Errors and bodies.  An error is "nil", a structured HTTP error made     *)
(* with core.NewError ("http400", "http500") or any other error ("plain"). *)
(***************************************************************************)
\* core.GetHTTPError(err): the structured HTTP error, if err is one
GetHTTPError(err) ==
    CASE err = "http400" -> [ok |-> TRUE, Code |-> 400, Message |-> "Validation errors"]
      [] err = "http500" -> [ok |-> TRUE, Code |-> 500, Message |-> "This is an error example"]
      [] OTHER -> [ok |-> FALSE, Code |-> 0, Message |-> ""]

\* no body written
NoBody == [fmt |-> "none", code |-> 0, text |-> ""]

\* the data a handler answers with
OkBody == [fmt |-> "data", code |-> 0, text |-> ""]

\* a plain text body
TextBody(text) == [fmt |-> "text", code |-> 0, text |-> text]

\* map[string]string{"error": message} as JSON: {"error": message}
ErrorBody(message) == [fmt |-> "json", code |-> 0, text |-> message]

\* the struct ErrorResponse(code, message) as JSON: {"code": code, "error": message}
ErrorResponse(code, message) == [fmt |-> "json", code |-> code, text |-> message]

\* what the client receives: a status line and a body
Written(status, body) == [status |-> status, body |-> body]

NoResult == [resp |-> 0, body |-> NoBody, err |-> "nil"]

\* defaultErrorHandler(ctx, err): with a handler type that returns a
\* Response, the Response with the error's code and {"error": message}, or
\* 500 and "Internal Server Error"; with a handler type that returns only
\* an error, the same sent at once with SendErrorResponse
defaultErrorHandler(ad, err) ==
    LET httpErr == GetHTTPError(err)
        code == IF httpErr.ok THEN httpErr.Code ELSE 500
        message == IF httpErr.ok THEN httpErr.Message ELSE "Internal Server Error"
    IN IF ReturnsResponse(ad)
       THEN [result |-> [resp |-> code, body |-> ErrorBody(message), err |-> "nil"],
             written |-> <<>>]
       ELSE [result |-> NoResult,
             written |-> <<Written(code, ErrorResponse(code, message))>>]

(***************************************************************************)
(* core.Response and its serialization.  Send makes a sequence of calls on *)
(* the Context; each adapter's Context turns a call into an effect on its  *)
(* transport.                                                              *)
(***************************************************************************)
(* The Router of the net/http adapter.  A pattern or a path is a sequence  *)
(* of tokens: the separator "/" and pieces of text; a piece written ":x"   *)
(* is text that starts with a colon.                                       *)
(***************************************************************************)
Slash == "/"
PatternTokens == {Slash, "a", ":x", ":y"}
PathTokens == {Slash, "a", "1"}
ColonTokens == {":x", ":y"}

Strings(alphabet, n) == UNION {[1..k -> alphabet] : k \in 0..n}

RECURSIVE TrimLeft(_)
TrimLeft(s) == IF s # <<>> /\ Head(s) = Slash THEN TrimLeft(Tail(s)) ELSE s

RECURSIVE TrimRight(_)
TrimRight(s) ==
    IF s # <<>> /\ s[Len(s)] = Slash THEN TrimRight(SubSeq(s, 1, Len(s) - 1)) ELSE s

\* strings.Trim(s, "/")
Trim(s) == TrimRight(TrimLeft(s))

RECURSIVE UpToSlash(_)
\* the text of s before its first separator
UpToSlash(s) ==
    IF s = <<>> \/ Head(s) = Slash THEN <<>> ELSE <<Head(s)>> \o UpToSlash(Tail(s))

RECURSIVE Split(_)
\* strings.Split(s, "/"): one part more than there are separators; the
\* empty string gives one empty part
Split(s) ==
    LET first == UpToSlash(s)
    IN IF Len(first) = Len(s)
       THEN <<first>>
       ELSE <<first>> \o Split(SubSeq(s, Len(first) + 2, Len(s)))

\* strings.HasPrefix(patternPart, ":")
IsParam(part) == part # <<>> /\ Head(part) \in ColonTokens

\* patternPart[1:], the text after the colon: the part stands for it
ParamName(part) == part

\* a nil map
NoMatch == [ok |-> FALSE, params |-> EmptyMap]

RECURSIVE MatchLoop(_, _, _, _)
\* the loop of matchPattern over the parts of the pattern
MatchLoop(patternParts, pathParts, i, params) ==
    IF i > Len(patternParts)
    THEN [ok |-> TRUE, params |-> params]
    ELSE IF IsParam(patternParts[i])
         THEN MatchLoop(patternParts, pathParts, i + 1,
                        BagSet(params, ParamName(patternParts[i]), pathParts[i]))
         ELSE IF patternParts[i] # pathParts[i]
              THEN NoMatch
              ELSE MatchLoop(patternParts, pathParts, i + 1, params)

matchPatternPrefix(pattern, path) ==
    LET patternParts == Split(Trim(pattern))
        pathParts == Split(Trim(path))
    IN IF Len(patternParts) > Len(pathParts)
       THEN NoMatch
       ELSE MatchLoop(patternParts, pathParts, 1, EmptyMap)

\* matchPattern: nil unless the parts are as many and every part matches
matchPattern(pattern, path) ==
    LET patternParts == Split(Trim(pattern))
        pathParts == Split(Trim(path))
    IN IF Len(patternParts) # Len(pathParts)
       THEN NoMatch
       ELSE MatchLoop(patternParts, pathParts, 1, EmptyMap)

\* Router.Handle
RouterHandle(rt, method, pattern, handler) ==
    Append(rt, [method |-> method, pattern |-> pattern, handler |-> handler])

\* Match found no route: a nil handler and nil parameters
NoRoute == [handler |-> 0, params |-> EmptyMap]

AnyMethod(routeMethod, method) == TRUE

\* the route is of the method asked for: route.method == method
SameMethod(routeMethod, method) == routeMethod = method

RECURSIVE MatchFrom(_, _, _, _)
\* the loop of Router.Match over r.routes, from the i-th on
MatchFrom(rt, i, method, path) ==
    IF i > Len(rt)
    THEN NoRoute
    ELSE IF ~SameMethod(rt[i].method, method)
         THEN MatchFrom(rt, i + 1, method, path)
         ELSE IF matchPattern(rt[i].pattern, path).ok
              THEN [handler |-> rt[i].handler,
                    params |-> matchPattern(rt[i].pattern, path).params]
              ELSE MatchFrom(rt, i + 1, method, path)

RECURSIVE MatchLastFrom(_, _, _, _)
MatchLastFrom(rt, i, method, path) ==
    IF i = 0
    THEN NoRoute
    ELSE IF SameMethod(rt[i].method, method) /\ matchPattern(rt[i].pattern, path).ok
         THEN [handler |-> rt[i].handler,
               params |-> matchPattern(rt[i].pattern, path).params]
         ELSE MatchLastFrom(rt, i - 1, method, path)

RouterMatchLast(rt, method, path) == MatchLastFrom(rt, Len(rt), method, path)

\* Router.Match
RouterMatch(rt, method, path) == MatchFrom(rt, 1, method, path)

NoMatching == [pattern |-> <<>>, path |-> <<>>, done |-> FALSE, result |-> NoMatch]

(***************************************************************************)
HeaderNames == {"Content-Type", "content-type", "X-Trace"}
HeaderValues == {"text/html"}
CookieNames == {"sid", "theme"}
StatusCodes == {200, 201}

NilBody == [kind |-> "nil", val |-> ""]
Bodies == {NilBody,
           [kind |-> "string", val |-> ""],
           [kind |-> "string", val |-> "plain text"],
           [kind |-> "map", val |-> "k:v"],
           [kind |-> "func", val |-> ""]}

\* a nil *Response: no status code, no maps
NoResponse == [StatusCode |-> 0, Headers |-> EmptyMap, Cookies |-> <<>>, Body |-> NilBody]

\* NewResponse()
NewResponse == [StatusCode |-> 200, Headers |-> EmptyMap, Cookies |-> <<>>, Body |-> NilBody]

\* r.StatusCode = code
WithStatus(r, code) == [r EXCEPT !.StatusCode = code]

\* r.Headers[name] = value
WithHeader(r, name, value) ==
    [r EXCEPT !.Headers = [n \in (DOMAIN r.Headers) \cup {name} |->
                              IF n = name THEN value ELSE r.Headers[n]]]

\* r.Cookies = append(r.Cookies, cookie)
WithCookie(r, cookie) == [r EXCEPT !.Cookies = Append(r.Cookies, cookie)]

\* r.Body = body
WithBody(r, body) == [r EXCEPT !.Body = body]

Call(op, name, value, code, bytes) ==
    [op |-> op, name |-> name, value |-> value, code |-> code, bytes |-> bytes]

SetHeaderCall(name, value) == Call("SetHeader", name, value, 0, <<>>)
SetCookieCall(cookie) == Call("SetCookie", cookie, "", 0, <<>>)
StatusCall(code) == Call("Status", "", "", code, <<>>)
WriteCall(bytes) == Call("Write", "", "", 0, bytes)

\* the bytes of a string written as it is: none for the empty string
RawBytes(str) == IF str = "" THEN <<>> ELSE <<[fmt |-> "raw", val |-> str]>>

\* json can encode the body: not a function or a channel
Encodable(body) == body.kind # "func"

\* json.NewEncoder(w).Encode(body): the JSON text of the body and a newline;
\* nothing is written for a body that cannot be encoded
JSONBytes(body) ==
    IF Encodable(body)
    THEN <<[fmt |-> "json", val |-> body.val], [fmt |-> "raw", val |-> "\n"]>>
    ELSE <<>>

\* what Send returns: the error of the write of the body, nil without one
SendError(r) ==
    IF r.Body.kind \notin {"nil", "string"} /\ ~Encodable(r.Body) THEN "encode" ELSE "nil"

\* _, exists := r.Headers["Content-Type"]; !exists
InferContentType(headers) == "Content-Type" \notin DOMAIN headers

\* Send: the headers in the order the range over the map visits them, the
\* cookies in their order, then by the body: nil, a string, anything else
SendCalls(r, order) ==
    [i \in 1..Len(order) |-> SetHeaderCall(order[i], r.Headers[order[i]])]
    \o [i \in 1..Len(r.Cookies) |-> SetCookieCall(r.Cookies[i])]
    \o (IF r.Body.kind = "nil"
        THEN <<StatusCall(r.StatusCode)>>
        ELSE IF r.Body.kind = "string"
        THEN (IF InferContentType(r.Headers)
              THEN <<SetHeaderCall("Content-Type", "text/plain")>> ELSE <<>>)
             \o <<StatusCall(r.StatusCode), WriteCall(RawBytes(r.Body.val))>>
        ELSE (IF InferContentType(r.Headers)
              THEN <<SetHeaderCall("Content-Type", "application/json")>> ELSE <<>>)
             \o <<StatusCall(r.StatusCode)>>
             \o (IF Encodable(r.Body) THEN <<WriteCall(JSONBytes(r.Body))>> ELSE <<>>))

\* the orders in which a range over the map of headers can visit its keys
Orders(headers) ==
    {o \in [1..Cardinality(DOMAIN headers) -> DOMAIN headers] :
        \A i, j \in DOMAIN o : i # j => o[i] # o[j]}

\* the key under which the transports keep a header: its canonical form
Canonical(name) == IF name = "content-type" THEN "Content-Type" ELSE name

NewTransport ==
    [headers |-> EmptyMap, cookies |-> <<>>, status |-> 0, committed |-> FALSE,
     body |-> <<>>]

PutHeader(o, name, value) ==
    [o EXCEPT !.headers = [n \in (DOMAIN o.headers) \cup {Canonical(name)} |->
                              IF n = Canonical(name) THEN value ELSE o.headers[n]]]

\* contextImpl.SetHeader: net/http and gin set the header of the response
\* writer, which the client receives only if the header is not written
\* yet; fasthttp sets it in the buffered response
CtxSetHeader(ad, o, name, value) ==
    IF ad = "fasthttp" \/ ~o.committed THEN PutHeader(o, name, value) ELSE o

\* http.SetCookie(ctx.Response(), cookie): adds a Set-Cookie line to
\* Response().Header(); the fasthttp wrapper's Header() is a new map filled
\* from the response, so the line is added to a map nobody reads
CtxSetCookie(ad, o, cookie) ==
    IF ad = "fasthttp" THEN o
    ELSE IF ~o.committed THEN [o EXCEPT !.cookies = Append(o.cookies, cookie)]
    ELSE o

\* contextImpl.Status: WriteHeader on net/http commits the status and the
\* header; gin records the status until the first write; fasthttp sets
\* the status of the buffered response
CtxStatus(ad, o, code) ==
    CASE ad = "nethttp" ->
           IF o.committed THEN o ELSE [o EXCEPT !.status = code, !.committed = TRUE]
      [] ad = "gin" ->
           IF o.committed THEN o ELSE [o EXCEPT !.status = code]
      [] ad = "fasthttp" -> [o EXCEPT !.status = code]

\* a write on ctx.Response(): net/http and gin commit the header first
CtxWrite(ad, o, bytes) ==
    IF ad = "fasthttp" THEN [o EXCEPT !.body = o.body \o bytes]
    ELSE [o EXCEPT !.status = IF o.status = 0 THEN 200 ELSE o.status,
                   !.committed = TRUE,
                   !.body = o.body \o bytes]

CtxCall(ad, o, c) ==
    CASE c.op = "SetHeader" -> CtxSetHeader(ad, o, c.name, c.value)
      [] c.op = "SetCookie" -> CtxSetCookie(ad, o, c.name)
      [] c.op = "Status" -> CtxStatus(ad, o, c.code)
      [] c.op = "Write" -> CtxWrite(ad, o, c.bytes)

RECURSIVE CtxCalls(_, _, _, _)
\* the transport after the first n calls of the sequence
CtxCalls(ad, o, cs, n) ==
    IF n = 0 THEN o ELSE CtxCall(ad, CtxCalls(ad, o, cs, n - 1), cs[n])

HandleResponseSendsOnError(r, err) ==
    IF r # NoResponse THEN [send |-> TRUE, ret |-> "nil"]
    ELSE [send |-> FALSE, ret |-> err]

\* HandleResponse(ctx, resp, err): the error if there is one, otherwise
\* resp.Send(ctx) if there is a response, otherwise nil
HandleResponse(r, err) ==
    IF err # "nil" THEN [send |-> FALSE, ret |-> err]
    ELSE IF r # NoResponse THEN [send |-> TRUE, ret |-> SendError(r)]
    ELSE [send |-> FALSE, ret |-> "nil"]

\* what answers an error returned by the final handler or by HandleResponse:
\* the error handler of the error-only signature with core.SendErrorResponse,
\* otherwise the adapter: http.Error on net/http, ctx.Error on fasthttp,
\* nothing on gin
FallbackCalls(ad, handled, err) ==
    IF handled /\ ad \in {"nethttp", "gin"}
    THEN <<SetHeaderCall("Content-Type", "application/json"), StatusCall(500),
           WriteCall(<<[fmt |-> "json", val |-> "Internal Server Error"],
                       [fmt |-> "raw", val |-> "\n"]>>)>>
    ELSE CASE ad = "nethttp" ->
                <<SetHeaderCall("Content-Type", "text/plain; charset=utf-8"),
                  StatusCall(500), WriteCall(RawBytes(err))>>
           [] ad = "fasthttp" -> <<StatusCall(500), WriteCall(RawBytes(err))>>
           [] ad = "gin" -> <<>>

\* how many of the calls are calls of Status
StatusCount(cs) == Cardinality({i \in 1..Len(cs) : cs[i].op = "Status"})

VARIABLES
    adapter,    \* the backend adapter of the application
    started,    \* Start has been called
    app,        \* a.middlewares and the router's routes
    configLog,  \* history of the Use and Handle calls
    heap,       \* contents of the containers: a.services and the scoped ones
    req,        \* the request a task is processing
    pc,         \* where the task is: idle, pre, handler, post, done, panicked
    depth,      \* the layer of the handler the task is in
    bag,        \* the Context's values
    trace,      \* the layers entered and returned from, in order
    result,     \* the (*Response, error) being returned up the chain
    wire,       \* the status lines and bodies written to the transport
    mu,         \* the RWMutex of the application's container
    wpc,        \* position of a worker inside a container method
    wop,        \* the container call of the worker
    wret,       \* what the worker's last call returned
    oplog,      \* the mutations of the container, in the order they took effect
    response,   \* the *Response a handler builds, NoResponse for a nil pointer
    out,        \* what the transport of the Context holds for the client
    ctxlog,     \* the calls Send made on the Context, in order
    spc,        \* build: the Response is being built; sent: it was handed over
    herr,       \* the error of the chain that HandleResponse was given
    sret,       \* the error Send or HandleResponse returned
    sends,      \* how many times Send ran for the Response
    ctxs,       \* the Contexts of one request: the original and the derived ones
    store,      \* the maps behind the Contexts' bags, by reference
    lastSet,    \* the last Set made on one of the Contexts
    matching,   \* a pattern, a path and what matchPattern returned for them
    router,     \* the routes of the Router, in registration order
    fallback,   \* the calls on the Context that answered the error of a request
    dest        \* the struct a validation middleware parses into: whose request it holds

vars == <<adapter, started, app, configLog, heap, req, pc, depth, bag, trace,
          result, wire, mu, wpc, wop, wret, oplog,
          response, out, ctxlog, spc, herr, sret, sends,
          ctxs, store, lastSet, matching, router, fallback, dest>>

reqVars == <<req, pc, depth, bag, trace, result, wire>>
lockVars == <<mu, wpc, wop, wret, oplog>>
appVars == <<adapter, started, app, configLog>>
sendVars == <<response, out, ctxlog, spc, herr, sret, sends>>
unitVars == <<ctxs, store, lastSet, matching, router, fallback>>

(***************************************************************************)
(* Inputs.                                                                 *)
(***************************************************************************)
GlobalMws == {Cors, Logging, ErrorHandler}
RouteMws == {UseHeaders, UseJsonBody, UseJsonBodyWithKey("user")}

SeqsUpTo(S, n) == UNION {[1..k -> S] : k \in 0..n}

CurRoute(t) == app.routes[req[t].route]
CurHandler(t) == RouteHandler(app, req[t].route)
CurLayer(t) == CurHandler(t)[depth[t]]

Kinds(handler) == {handler[i].kind : i \in 1..Len(handler)}

\* the requests that can arrive for a route: inputs no layer of the route
\* reads are left at their default
RequestsFor(r) ==
    LET ks == Kinds(app.routes[r].handler)
    IN [route : {r},
        method : IF "cors" \in ks THEN {"GET", "OPTIONS"} ELSE {"GET"},
        hdrOK : IF "useheaders" \in ks THEN BOOLEAN ELSE {TRUE},
        bodyOK : IF "usejsonbody" \in ks THEN BOOLEAN ELSE {TRUE}]

Event(ev, t) == [ev |-> ev, idx |-> depth[t], mw |-> CurLayer(t)]

(***************************************************************************)
(* Initial states.                                                         *)
(***************************************************************************)
InitTasks ==
    /\ req = [t \in Tasks |-> NoReq]
    /\ pc = [t \in Tasks |-> "idle"]
    /\ depth = [t \in Tasks |-> 0]
    /\ bag = [t \in Tasks |-> EmptyMap]
    /\ trace = [t \in Tasks |-> <<>>]
    /\ result = [t \in Tasks |-> NoResult]
    /\ wire = [t \in Tasks |-> <<>>]

InitLock ==
    /\ mu = [writer |-> FALSE, readers |-> 0]
    /\ wpc = [w \in Workers |-> "idle"]
    /\ wop = [w \in Workers |-> None]
    /\ wret = [w \in Workers |-> None]
    /\ oplog = <<>>

InitResponse ==
    /\ response = NewResponse
    /\ out = NewTransport
    /\ ctxlog = <<>>
    /\ spc = "build"
    /\ herr = "nil"
    /\ sret = "nil"
    /\ sends = 0

\* no Set was made yet
NoSet == [ctx |-> 0, key |-> "", value |-> "", derived |-> 0]

\* NewContext: one Context with an empty bag, nothing derived from it
InitContexts ==
    /\ ctxs = <<[values |-> 1]>>
    /\ store = <<EmptyMap>>
    /\ lastSet = NoSet

\* NewRouter: no routes
InitRouter == router = <<>>

InitUnit ==
    /\ InitContexts
    /\ InitRouter
    /\ matching = NoMatching
    /\ fallback = <<>>
    /\ dest = EmptyMap

\* New(): no middlewares, no routes, an empty container
Init ==
    /\ adapter \in Adapters
    /\ started = FALSE
    /\ app = NewApp
    /\ configLog = <<>>
    /\ heap = [c \in {AppRef} |-> EmptyMap]
    /\ InitTasks
    /\ InitLock
    /\ InitResponse
    /\ InitUnit

(***************************************************************************)
(* Configuration: Use, Handle, Start.                                      *)
(***************************************************************************)
UseUpTo(mws, limit) ==
    /\ ~started
    /\ Len(app.middlewares) + Len(mws) <= limit
    /\ app' = AppUse(app, mws)
    /\ configLog' = Append(configLog, [op |-> "Use", mws |-> mws])
    /\ UNCHANGED <<adapter, started, heap>>
    /\ UNCHANGED reqVars
    /\ UNCHANGED lockVars
    /\ UNCHANGED sendVars
    /\ UNCHANGED unitVars
    /\ UNCHANGED dest

Use(mws) == UseUpTo(mws, MaxGlobal)

Handle(own) ==
    /\ ~started
    /\ Len(app.routes) < MaxRoutes
    /\ app' = AppHandle(app, own)
    /\ configLog' = Append(configLog, [op |-> "Handle", mws |-> own])
    /\ UNCHANGED <<adapter, started, heap>>
    /\ UNCHANGED reqVars
    /\ UNCHANGED lockVars
    /\ UNCHANGED sendVars
    /\ UNCHANGED unitVars
    /\ UNCHANGED dest

Start ==
    /\ ~started
    /\ Len(app.routes) > 0
    /\ started' = TRUE
    /\ UNCHANGED <<adapter, app, configLog, heap>>
    /\ UNCHANGED reqVars
    /\ UNCHANGED lockVars
    /\ UNCHANGED sendVars
    /\ UNCHANGED unitVars
    /\ UNCHANGED dest

(***************************************************************************)
(* One request.                                                            *)
(***************************************************************************)
\* the adapter builds the Context of a request for a registered route and
\* calls the route's final handler
Arrive(t, rq) ==
    /\ started
    /\ pc[t] = "idle"
    /\ req' = [req EXCEPT ![t] = rq]
    /\ bag' = [bag EXCEPT ![t] = NewBag(adapter)]
    /\ pc' = [pc EXCEPT ![t] = "call"]
    /\ depth' = [depth EXCEPT ![t] = 1]
    /\ UNCHANGED <<trace, result, wire, heap>>
    /\ UNCHANGED appVars
    /\ UNCHANGED lockVars
    /\ UNCHANGED sendVars
    /\ UNCHANGED unitVars
    /\ UNCHANGED dest

AtLayer(t, kind) ==
    /\ pc[t] = "call"
    /\ CurLayer(t).kind = kind

\* the layer calls next(ctx)
Delegate(t) ==
    /\ pc' = pc
    /\ depth' = [depth EXCEPT ![t] = depth[t] + 1]
    /\ trace' = [trace EXCEPT ![t] = Append(trace[t], Event("pre", t))]

\* the layer returns without calling next
Decline(t, res) ==
    /\ pc' = [pc EXCEPT ![t] = "ret"]
    /\ depth' = [depth EXCEPT ![t] = depth[t] - 1]
    /\ trace' = [trace EXCEPT ![t] = Append(trace[t], Event("pre", t))]
    /\ result' = [result EXCEPT ![t] = res]

\* cors.New: a preflight is answered with 204 and nil, anything else is
\* passed on
CorsMw(t) ==
    /\ AtLayer(t, "cors")
    /\ IF CorsPreflight(req[t])
       THEN /\ Decline(t, NoResult)
            /\ wire' = [wire EXCEPT ![t] = Append(wire[t], Written(204, NoBody))]
       ELSE /\ Delegate(t)
            /\ UNCHANGED <<result, wire>>
    /\ UNCHANGED <<req, bag, heap>>
    /\ UNCHANGED appVars
    /\ UNCHANGED lockVars
    /\ UNCHANGED sendVars
    /\ UNCHANGED unitVars
    /\ UNCHANGED dest

\* errorhandler.New, up to its call of next
ErrorHandlerMw(t) ==
    /\ AtLayer(t, "errorhandler")
    /\ Delegate(t)
    /\ UNCHANGED <<req, bag, result, wire, heap>>
    /\ UNCHANGED appVars
    /\ UNCHANGED lockVars
    /\ UNCHANGED sendVars
    /\ UNCHANGED unitVars
    /\ UNCHANGED dest

\* logging.New, up to its call of next
LoggingMw(t) ==
    /\ AtLayer(t, "logging")
    /\ Delegate(t)
    /\ UNCHANGED <<req, bag, result, wire, heap>>
    /\ UNCHANGED appVars
    /\ UNCHANGED lockVars
    /\ UNCHANGED sendVars
    /\ UNCHANGED unitVars
    /\ UNCHANGED dest

\* schema.Parse(..., dest): the struct the middleware of layer d of route r
\* was built with now holds what was parsed from the request of task t
Parse(ds, r, d, t) ==
    [k \in (DOMAIN ds) \cup {<<r, d>>} |-> IF k = <<r, d>> THEN t ELSE ds[k]]

\* useheaders.UseHeaders: issues give a 400 response and nil, otherwise the
\* parsed headers are stored and next is called
UseHeadersMw(t) ==
    /\ AtLayer(t, "useheaders")
    /\ IF HeaderIssues(req[t])
       THEN /\ Decline(t, [resp |-> 400, body |-> ErrorBody("Validation errors"),
                            err |-> "nil"])
            /\ UNCHANGED bag
       ELSE /\ Delegate(t)
            /\ bag' = [bag EXCEPT ![t] = BagSet(bag[t], CurLayer(t).key, "dest")]
            /\ UNCHANGED result
    /\ dest' = IF HeaderIssues(req[t]) THEN dest ELSE Parse(dest, req[t].route, depth[t], t)
    /\ UNCHANGED <<req, wire, heap>>
    /\ UNCHANGED appVars
    /\ UNCHANGED lockVars
    /\ UNCHANGED sendVars
    /\ UNCHANGED unitVars

\* usejsonbody.UseJsonBody: an empty body or issues give NewError(400),
\* otherwise the parsed body is stored and next is called
UseJsonBodyMw(t) ==
    /\ AtLayer(t, "usejsonbody")
    /\ IF BodyIssues(req[t])
       THEN /\ Decline(t, [resp |-> 0, body |-> NoBody, err |-> "http400"])
            /\ UNCHANGED bag
       ELSE /\ Delegate(t)
            /\ bag' = [bag EXCEPT ![t] = BagSet(bag[t], CurLayer(t).key, "dest")]
            /\ UNCHANGED result
    /\ dest' = IF BodyIssues(req[t]) THEN dest ELSE Parse(dest, req[t].route, depth[t], t)
    /\ UNCHANGED <<req, wire, heap>>
    /\ UNCHANGED appVars
    /\ UNCHANGED lockVars
    /\ UNCHANGED sendVars
    /\ UNCHANGED unitVars

RECURSIVE RegisterAll(_, _)
\* for name, service := range src { c.Register(name, service) }
RegisterAll(m, src) ==
    IF DOMAIN src = {} THEN m
    ELSE LET n == CHOOSE x \in DOMAIN src : TRUE
         IN RegisterAll(Register(m, n, src[n]),
                        [k \in (DOMAIN src) \ {n} |-> src[k]])

\* useservices.UseServices: a new container receives a copy of the
\* application's services (when the adapter published them), then the
\* route's; it is published in the bag and next is called
UseServicesMw(t) ==
    /\ AtLayer(t, "useservices")
    /\ LET scopedContainer == NewContainer(t, depth[t])
           appServices == getAppServices(bag[t])
           base == Contents(heap, scopedContainer)
           copied == IF appServices # None
                     THEN RegisterAll(base, All(heap[appServices]))
                     ELSE base
           filled == RegisterAll(copied, CurLayer(t).svcs)
       IN /\ heap' = [c \in (DOMAIN heap) \cup {scopedContainer} |->
                        IF c = scopedContainer THEN filled ELSE heap[c]]
          /\ bag' = [bag EXCEPT ![t] = BagSet(bag[t], ScopedKey, scopedContainer)]
    /\ Delegate(t)
    /\ UNCHANGED <<req, result, wire>>
    /\ UNCHANGED appVars
    /\ UNCHANGED lockVars
    /\ UNCHANGED sendVars
    /\ UNCHANGED unitVars
    /\ UNCHANGED dest

HandlerBehaviours == {"respond", "fail", "failPlain", "mustService"}

\* the response of a handler: sent with resp.Send(ctx) by a handler that
\* returns only an error, returned by a handler that returns (*Response, error)
Respond(t, code) ==
    IF ReturnsResponse(adapter)
    THEN /\ result' = [result EXCEPT ![t] = [resp |-> code, body |-> OkBody, err |-> "nil"]]
         /\ UNCHANGED wire
    ELSE /\ result' = [result EXCEPT ![t] = NoResult]
         /\ wire' = [wire EXCEPT ![t] = Append(wire[t], Written(code, OkBody))]

\* the terminal handler of the route: it answers, fails with an error, or
\* resolves a service with MustService and answers
RunHandler(t, hb, name) ==
    /\ AtLayer(t, "handler")
    /\ trace' = [trace EXCEPT ![t] = Append(trace[t], Event("h", t))]
    /\ CASE hb = "respond" ->
              /\ Respond(t, 200)
              /\ pc' = [pc EXCEPT ![t] = "ret"]
              /\ depth' = [depth EXCEPT ![t] = depth[t] - 1]
         [] hb \in {"fail", "failPlain"} ->
              /\ result' = [result EXCEPT ![t] =
                    [resp |-> 0, body |-> NoBody,
                     err |-> IF hb = "fail" THEN "http500" ELSE "plain"]]
              /\ pc' = [pc EXCEPT ![t] = "ret"]
              /\ depth' = [depth EXCEPT ![t] = depth[t] - 1]
              /\ UNCHANGED wire
         [] hb = "mustService" ->
              IF MustService(adapter, bag[t], heap, name).panic
              THEN /\ pc' = [pc EXCEPT ![t] = "panic"]
                   /\ depth' = [depth EXCEPT ![t] = depth[t] - 1]
                   /\ UNCHANGED <<result, wire>>
              ELSE /\ Respond(t, 200)
                   /\ pc' = [pc EXCEPT ![t] = "ret"]
                   /\ depth' = [depth EXCEPT ![t] = depth[t] - 1]
    /\ UNCHANGED <<req, bag, heap>>
    /\ UNCHANGED appVars
    /\ UNCHANGED lockVars
    /\ UNCHANGED sendVars
    /\ UNCHANGED unitVars
    /\ UNCHANGED dest

\* next(ctx) has returned to the layer: logging logs the outcome, the
\* error handler hands an error to its Handler option, every other layer
\* hands the result to its caller
Return(t) ==
    /\ pc[t] = "ret"
    /\ depth[t] >= 1
    /\ trace' = [trace EXCEPT ![t] = Append(trace[t], Event("post", t))]
    /\ depth' = [depth EXCEPT ![t] = depth[t] - 1]
    /\ IF CurLayer(t).kind = "errorhandler" /\ result[t].err # "nil"
       THEN LET handled == defaultErrorHandler(adapter, result[t].err)
            IN /\ result' = [result EXCEPT ![t] = handled.result]
               /\ wire' = [wire EXCEPT ![t] = wire[t] \o handled.written]
       ELSE UNCHANGED <<result, wire>>
    /\ UNCHANGED <<req, pc, bag, heap>>
    /\ UNCHANGED appVars
    /\ UNCHANGED lockVars
    /\ UNCHANGED sendVars
    /\ UNCHANGED unitVars
    /\ UNCHANGED dest

RecoversInErrorHandler(mw) == mw.kind = "errorhandler"

\* the layer has a deferred recover(): none of the middlewares has one
Recovers(mw) == FALSE

\* a panic raised below passes through the layer: the statements after
\* its next(ctx) do not run; a layer that recovered would return an error
Unwind(t) ==
    /\ pc[t] = "panic"
    /\ depth[t] >= 1
    /\ IF Recovers(CurLayer(t))
       THEN /\ pc' = [pc EXCEPT ![t] = "ret"]
            /\ result' = [result EXCEPT ![t] = [resp |-> 0, body |-> NoBody, err |-> "plain"]]
       ELSE UNCHANGED <<pc, result>>
    /\ depth' = [depth EXCEPT ![t] = depth[t] - 1]
    /\ UNCHANGED <<req, bag, trace, wire, heap>>
    /\ UNCHANGED appVars
    /\ UNCHANGED lockVars
    /\ UNCHANGED sendVars
    /\ UNCHANGED unitVars
    /\ UNCHANGED dest

\* the panic leaves the final handler: the adapter has no recover either,
\* the request is aborted
Abort(t) ==
    /\ pc[t] = "panic"
    /\ depth[t] = 0
    /\ pc' = [pc EXCEPT ![t] = "panicked"]
    /\ UNCHANGED <<req, depth, bag, trace, result, wire, heap>>
    /\ UNCHANGED appVars
    /\ UNCHANGED lockVars
    /\ UNCHANGED sendVars
    /\ UNCHANGED unitVars
    /\ UNCHANGED dest

\* the *Response of a result: nil when there is none
ResponseOf(res) == IF res.resp = 0 THEN NoResponse ELSE WithStatus(NewResponse, res.resp)

\* the final handler has returned to the adapter: net/http answers an
\* error with http.Error(500), fasthttp gives the result to HandleResponse
\* and answers the error it returns with ctx.Error(500), gin records the
\* error with ginCtx.Error
Dispatch(t) ==
    /\ pc[t] = "ret"
    /\ depth[t] = 0
    /\ pc' = [pc EXCEPT ![t] = "done"]
    /\ wire' = [wire EXCEPT ![t] =
          CASE adapter = "nethttp" ->
                 IF result[t].err # "nil"
                 THEN Append(wire[t], Written(500, TextBody(result[t].err)))
                 ELSE wire[t]
            [] adapter = "fasthttp" ->
                 IF HandleResponse(ResponseOf(result[t]), result[t].err).ret # "nil"
                 THEN Append(wire[t], Written(500, TextBody(result[t].err)))
                 ELSE IF HandleResponse(ResponseOf(result[t]), result[t].err).send
                 THEN Append(wire[t], Written(result[t].resp, result[t].body))
                 ELSE wire[t]
            [] adapter = "gin" -> wire[t]]
    /\ UNCHANGED <<req, depth, bag, trace, result, heap>>
    /\ UNCHANGED appVars
    /\ UNCHANGED lockVars
    /\ UNCHANGED sendVars
    /\ UNCHANGED unitVars
    /\ UNCHANGED dest

\* the request is over (served, or aborted by a panic): its Context and its
\* scoped containers are garbage
Release(t) ==
    /\ pc[t] \in {"done", "panicked"}
    /\ req' = [req EXCEPT ![t] = NoReq]
    /\ pc' = [pc EXCEPT ![t] = "idle"]
    /\ depth' = [depth EXCEPT ![t] = 0]
    /\ bag' = [bag EXCEPT ![t] = EmptyMap]
    /\ trace' = [trace EXCEPT ![t] = <<>>]
    /\ result' = [result EXCEPT ![t] = NoResult]
    /\ wire' = [wire EXCEPT ![t] = <<>>]
    /\ heap' = [c \in {x \in DOMAIN heap : x[1] # t} |-> heap[c]]
    /\ UNCHANGED appVars
    /\ UNCHANGED lockVars
    /\ UNCHANGED sendVars
    /\ UNCHANGED unitVars
    /\ UNCHANGED dest

(***************************************************************************)
(* The application's container used from outside the requests: main        *)
(* registers services with app.Services().Register, and may clear them.    *)
(***************************************************************************)
AppRegister(name, service) ==
    /\ heap' = [heap EXCEPT ![AppRef] = Register(heap[AppRef], name, service)]
    /\ UNCHANGED reqVars
    /\ UNCHANGED appVars
    /\ UNCHANGED lockVars
    /\ UNCHANGED sendVars
    /\ UNCHANGED unitVars
    /\ UNCHANGED dest

AppClear ==
    /\ heap' = [heap EXCEPT ![AppRef] = Clear(heap[AppRef])]
    /\ UNCHANGED reqVars
    /\ UNCHANGED appVars
    /\ UNCHANGED lockVars
    /\ UNCHANGED sendVars
    /\ UNCHANGED unitVars
    /\ UNCHANGED dest

(***************************************************************************)
(* Specification of the chain: any configuration within the bounds, then   *)
(* requests served one at a time.                                          *)
(***************************************************************************)
Next ==
    \/ \E mws \in SeqsUpTo(GlobalMws, 1) \ {<<>>} : Use(mws)
    \/ \E own \in SeqsUpTo(RouteMws, MaxRouteMws) : Handle(own)
    \/ Start
    \/ \E r \in 1..Len(app.routes) : \E rq \in RequestsFor(r) : Arrive(1, rq)
    \/ CorsMw(1)
    \/ LoggingMw(1)
    \/ ErrorHandlerMw(1)
    \/ UseHeadersMw(1)
    \/ UseJsonBodyMw(1)
    \/ \E hb \in {"respond", "failPlain"} : RunHandler(1, hb, "userService")
    \/ Return(1)
    \/ Dispatch(1)
    \/ Release(1)

Spec == Init /\ [][Next]_vars

(***************************************************************************)
(* Specification of the services: an application with three routes, the    *)
(* first with UseServices(userService), the second with no middleware, the *)
(* third with UseServices(authService) around UseServices(userService),    *)
(* has been started; requests are served concurrently while services are   *)
(* registered in and cleared from the application's container.             *)
(***************************************************************************)
ServeCalls ==
    << [op |-> "Handle", mws |-> <<UseSvcUser>>],
       [op |-> "Handle", mws |-> <<>>],
       [op |-> "Handle", mws |-> <<UseSvcAuth, UseSvcUser>>] >>

RECURSIVE Configured(_, _)
\* the application after the first n calls of the list
Configured(calls, n) ==
    IF n = 0 THEN NewApp
    ELSE IF calls[n].op = "Use"
         THEN AppUse(Configured(calls, n - 1), calls[n].mws)
         ELSE AppHandle(Configured(calls, n - 1), calls[n].mws)

InitServe ==
    /\ adapter \in Adapters
    /\ started = TRUE
    /\ app = Configured(ServeCalls, Len(ServeCalls))
    /\ configLog = ServeCalls
    /\ heap = [c \in {AppRef} |-> EmptyMap]
    /\ InitTasks
    /\ InitLock
    /\ InitResponse
    /\ InitUnit

NextServe ==
    \/ \E name \in Names : \E service \in AppValues : AppRegister(name, service)
    \/ AppClear
    \/ \E t \in Tasks :
          \/ \E r \in 1..Len(app.routes) : \E rq \in RequestsFor(r) : Arrive(t, rq)
          \/ UseServicesMw(t)
          \/ \E hb \in {"respond", "mustService"} : \E name \in Names : RunHandler(t, hb, name)
          \/ Return(t)
          \/ Unwind(t)
          \/ Abort(t)
          \/ Dispatch(t)
          \/ Release(t)

SpecServe == InitServe /\ [][NextServe]_vars

(***************************************************************************)
(* Specification of the panics: an application whose route runs behind     *)
(* cors, logging, the error handler and UseServices(userService) serves    *)
(* requests whose handler resolves a service with MustService, while       *)
(* services are registered in the application's container.                 *)
(***************************************************************************)
PanicCalls ==
    << [op |-> "Use", mws |-> <<Cors, Logging>>],
       [op |-> "Use", mws |-> <<ErrorHandler>>],
       [op |-> "Handle", mws |-> <<UseSvcUser>>] >>

InitPanic ==
    /\ adapter \in Adapters
    /\ started = TRUE
    /\ app = Configured(PanicCalls, Len(PanicCalls))
    /\ configLog = PanicCalls
    /\ heap = [c \in {AppRef} |-> EmptyMap]
    /\ InitTasks
    /\ InitLock
    /\ InitResponse
    /\ InitUnit

NextPanic ==
    \/ \E name \in Names : \E service \in AppValues : AppRegister(name, service)
    \/ \E r \in 1..Len(app.routes) : \E rq \in RequestsFor(r) : Arrive(1, rq)
    \/ CorsMw(1)
    \/ LoggingMw(1)
    \/ ErrorHandlerMw(1)
    \/ UseServicesMw(1)
    \/ \E hb \in {"fail", "mustService"} : \E name \in Names : RunHandler(1, hb, name)
    \/ Return(1)
    \/ Unwind(1)
    \/ Abort(1)
    \/ Dispatch(1)
    \/ Release(1)

SpecPanic == InitPanic /\ [][NextPanic]_vars

(***************************************************************************)
(* Specification of the container: several tasks call the methods of one   *)
(* Container; every method takes the RWMutex, touches the map, and         *)
(* releases the mutex on return (defer).                                   *)
(***************************************************************************)
Mutators == {"Register", "Clear"}
Readers == {"Get", "MustGet", "Has", "All"}

LockModeRegisterShared(method) == IF method = "Clear" THEN "write" ELSE "read"

\* c.mu.Lock() in Register and Clear, c.mu.RLock() in Get, Has and All
\* (MustGet calls Get)
LockMode(method) == IF method \in Mutators THEN "write" ELSE "read"

ContainerCalls ==
    [method : {"Register"}, name : Names, service : ContainerValues]
    \cup [method : {"Clear"}, name : {"-"}, service : {"-"}]
    \cup [method : Readers \ {"All"}, name : Names, service : {"-"}]
    \cup [method : {"All"}, name : {"-"}, service : {"-"}]

\* mutations called and not yet in effect
PendingMutations ==
    Cardinality({w \in Workers : wpc[w] \in {"lock", "body"} /\ wop[w].method \in Mutators})

InitRegistry ==
    /\ adapter = "nethttp"
    /\ started = FALSE
    /\ app = NewApp
    /\ configLog = <<>>
    /\ heap = [c \in {AppRef} |-> EmptyMap]
    /\ InitTasks
    /\ InitLock
    /\ InitResponse
    /\ InitUnit

\* a task calls a method of the container
Invoke(w, call) ==
    /\ wpc[w] = "idle"
    /\ call.method \in Mutators => Len(oplog) + PendingMutations < MaxOps
    /\ wop' = [wop EXCEPT ![w] = call]
    /\ wpc' = [wpc EXCEPT ![w] = "lock"]
    /\ UNCHANGED <<mu, wret, oplog, heap>>
    /\ UNCHANGED reqVars
    /\ UNCHANGED appVars
    /\ UNCHANGED sendVars
    /\ UNCHANGED unitVars
    /\ UNCHANGED dest

\* c.mu.Lock(): waits until no reader and no writer holds the mutex
Lock(w) ==
    /\ wpc[w] = "lock"
    /\ LockMode(wop[w].method) = "write"
    /\ ~mu.writer /\ mu.readers = 0
    /\ mu' = [mu EXCEPT !.writer = TRUE]
    /\ wpc' = [wpc EXCEPT ![w] = "body"]
    /\ UNCHANGED <<wop, wret, oplog, heap>>
    /\ UNCHANGED reqVars
    /\ UNCHANGED appVars
    /\ UNCHANGED sendVars
    /\ UNCHANGED unitVars
    /\ UNCHANGED dest

\* c.mu.RLock(): waits until no writer holds the mutex
RLock(w) ==
    /\ wpc[w] = "lock"
    /\ LockMode(wop[w].method) = "read"
    /\ ~mu.writer
    /\ mu' = [mu EXCEPT !.readers = mu.readers + 1]
    /\ wpc' = [wpc EXCEPT ![w] = "body"]
    /\ UNCHANGED <<wop, wret, oplog, heap>>
    /\ UNCHANGED reqVars
    /\ UNCHANGED appVars
    /\ UNCHANGED sendVars
    /\ UNCHANGED unitVars
    /\ UNCHANGED dest

InBody(w, methods) == wpc[w] = "body" /\ wop[w].method \in methods

BodyDone(w, ret) ==
    /\ wpc' = [wpc EXCEPT ![w] = "unlock"]
    /\ wret' = [wret EXCEPT ![w] = ret]
    /\ UNCHANGED <<mu, wop>>
    /\ UNCHANGED reqVars
    /\ UNCHANGED appVars
    /\ UNCHANGED sendVars
    /\ UNCHANGED unitVars
    /\ UNCHANGED dest

RegisterBody(w) ==
    /\ InBody(w, {"Register"})
    /\ heap' = [heap EXCEPT ![AppRef] = Register(heap[AppRef], wop[w].name, wop[w].service)]
    /\ oplog' = Append(oplog, wop[w])
    /\ BodyDone(w, None)

ClearBody(w) ==
    /\ InBody(w, {"Clear"})
    /\ heap' = [heap EXCEPT ![AppRef] = Clear(heap[AppRef])]
    /\ oplog' = Append(oplog, wop[w])
    /\ BodyDone(w, None)

\* Get, and the Get inside MustGet
GetBody(w) ==
    /\ InBody(w, {"Get", "MustGet"})
    /\ BodyDone(w, IF wop[w].method = "Get"
                   THEN Get(heap[AppRef], wop[w].name)
                   ELSE MustGet(heap[AppRef], wop[w].name))
    /\ UNCHANGED <<heap, oplog>>

HasBody(w) ==
    /\ InBody(w, {"Has"})
    /\ BodyDone(w, Has(heap[AppRef], wop[w].name))
    /\ UNCHANGED <<heap, oplog>>

SnapshotRefShared(w) == AppRef

\* result := make(map[string]interface{}) in All: a fresh map of the caller w
SnapshotRef(w) == <<0 - w, 0>>

\* All: the entries are copied into the new map, which is returned
AllBody(w) ==
    /\ InBody(w, {"All"})
    /\ LET copy == SnapshotRef(w)
       IN /\ heap' = [c \in (DOMAIN heap) \cup {copy} |->
                        IF c = copy THEN All(heap[AppRef]) ELSE heap[c]]
          /\ BodyDone(w, copy)
    /\ UNCHANGED oplog

\* the deferred Unlock / RUnlock; the method returns to its caller
Unlock(w) ==
    /\ wpc[w] = "unlock"
    /\ mu' = IF LockMode(wop[w].method) = "write"
             THEN [mu EXCEPT !.writer = FALSE]
             ELSE [mu EXCEPT !.readers = mu.readers - 1]
    /\ IF wop[w].method = "All"
       THEN /\ wpc' = [wpc EXCEPT ![w] = "holding"]
            /\ UNCHANGED <<wop, wret>>
       ELSE /\ wpc' = [wpc EXCEPT ![w] = "idle"]
            /\ wop' = [wop EXCEPT ![w] = None]
            /\ wret' = [wret EXCEPT ![w] = None]
    /\ UNCHANGED <<oplog, heap>>
    /\ UNCHANGED reqVars
    /\ UNCHANGED appVars
    /\ UNCHANGED sendVars
    /\ UNCHANGED unitVars
    /\ UNCHANGED dest

\* the caller of All writes an entry of the map it was returned
SnapshotWrite(w, name, service) ==
    /\ wpc[w] = "holding"
    /\ heap' = [heap EXCEPT ![wret[w]] =
                  [n \in (DOMAIN heap[wret[w]]) \cup {name} |->
                      IF n = name THEN service ELSE heap[wret[w]][n]]]
    /\ UNCHANGED lockVars
    /\ UNCHANGED sendVars
    /\ UNCHANGED unitVars
    /\ UNCHANGED dest
    /\ UNCHANGED reqVars
    /\ UNCHANGED appVars

\* the caller of All is done with the map: it is garbage
SnapshotDrop(w) ==
    /\ wpc[w] = "holding"
    /\ heap' = [c \in {x \in DOMAIN heap : x[1] # 0 - w} |-> heap[c]]
    /\ wpc' = [wpc EXCEPT ![w] = "idle"]
    /\ wop' = [wop EXCEPT ![w] = None]
    /\ wret' = [wret EXCEPT ![w] = None]
    /\ UNCHANGED <<mu, oplog>>
    /\ UNCHANGED reqVars
    /\ UNCHANGED appVars
    /\ UNCHANGED sendVars
    /\ UNCHANGED unitVars
    /\ UNCHANGED dest

NextRegistry ==
    \E w \in Workers :
        \/ \E call \in ContainerCalls : Invoke(w, call)
        \/ Lock(w)
        \/ RLock(w)
        \/ RegisterBody(w)
        \/ ClearBody(w)
        \/ GetBody(w)
        \/ HasBody(w)
        \/ AllBody(w)
        \/ Unlock(w)
        \/ \E name \in Names : SnapshotWrite(w, name, "callerSvc")
        \/ SnapshotDrop(w)

SpecRegistry == InitRegistry /\ [][NextRegistry]_vars

(***************************************************************************)
(* Specification of the responses: a handler builds a Response with the    *)
(* builder methods in any order, or returns a nil one; the Response is     *)
(* sent with Send by the handler or given, with the error of the chain, to *)
(* HandleResponse; the next request starts with a new Context.             *)
(***************************************************************************)
ChainErrors == {"nil", "plain", "http404"}

Building == spc = "build" /\ response # NoResponse

SendFrame ==
    /\ UNCHANGED <<adapter, started, app, configLog, heap>>
    /\ UNCHANGED reqVars
    /\ UNCHANGED lockVars
    /\ UNCHANGED <<ctxs, store, lastSet, matching, router, dest>>

BuildStep(r) ==
    /\ Building
    /\ response' = r
    /\ UNCHANGED <<out, ctxlog, spc, herr, sret, sends, fallback>>
    /\ SendFrame

BuildStatus(code) == BuildStep(WithStatus(response, code))

BuildHeader(name, value) == BuildStep(WithHeader(response, name, value))

BuildCookie(cookie) ==
    /\ Building
    /\ Len(response.Cookies) < MaxCookies
    /\ BuildStep(WithCookie(response, cookie))

BuildBody(body) == BuildStep(WithBody(response, body))

\* the handler returns a nil *Response
NilResponse ==
    /\ spc = "build"
    /\ response = NewResponse
    /\ response' = NoResponse
    /\ UNCHANGED <<out, ctxlog, spc, herr, sret, sends, fallback>>
    /\ SendFrame

\* r.Send(ctx) on the Context of the adapter
DoSend(order) ==
    /\ ctxlog' = SendCalls(response, order)
    /\ out' = CtxCalls(adapter, out, SendCalls(response, order),
                       Len(SendCalls(response, order)))
    /\ sends' = sends + 1

\* the handler sends the Response itself: return resp.Send(ctx)
CallSend(order) ==
    /\ Building
    /\ DoSend(order)
    /\ spc' = "sent"
    /\ sret' = SendError(response)
    /\ UNCHANGED <<response, herr, fallback>>
    /\ SendFrame

\* the adapter hands what the chain returned to core.HandleResponse
CallHandleResponse(err, order) ==
    /\ spc = "build"
    /\ LET d == HandleResponse(response, err)
       IN /\ IF d.send
             THEN DoSend(order)
             ELSE UNCHANGED <<out, ctxlog, sends>>
          /\ sret' = d.ret
    /\ herr' = err
    /\ spc' = "handled"
    /\ UNCHANGED <<response, fallback>>
    /\ SendFrame

\* the error Send or HandleResponse returned is answered: by the error
\* handler when the route has one (handled), otherwise by the adapter;
\* ctx.Error of fasthttp resets the buffered response first
Fallback(handled) ==
    /\ spc \in {"sent", "handled"}
    /\ sret # "nil"
    /\ spc' = "answered"
    /\ fallback' = FallbackCalls(adapter, handled, sret)
    /\ out' = CtxCalls(adapter, IF adapter = "fasthttp" THEN NewTransport ELSE out,
                       FallbackCalls(adapter, handled, sret),
                       Len(FallbackCalls(adapter, handled, sret)))
    /\ UNCHANGED <<response, ctxlog, herr, sret, sends>>
    /\ SendFrame

\* the request is over; the next one has a new Context and a new Response
NextRequest ==
    /\ spc \in {"sent", "handled", "answered"}
    /\ response' = NewResponse
    /\ out' = NewTransport
    /\ ctxlog' = <<>>
    /\ spc' = "build"
    /\ herr' = "nil"
    /\ sret' = "nil"
    /\ sends' = 0
    /\ fallback' = <<>>
    /\ SendFrame

OrdersOf(r) == Orders(r.Headers)

InitSend ==
    /\ adapter \in Adapters
    /\ started = FALSE
    /\ app = NewApp
    /\ configLog = <<>>
    /\ heap = [c \in {AppRef} |-> EmptyMap]
    /\ InitTasks
    /\ InitLock
    /\ InitResponse
    /\ InitUnit

NextSend ==
    \/ \E code \in StatusCodes : BuildStatus(code)
    \/ \E name \in HeaderNames : \E value \in HeaderValues : BuildHeader(name, value)
    \/ \E cookie \in CookieNames : BuildCookie(cookie)
    \/ \E body \in Bodies : BuildBody(body)
    \/ NilResponse
    \/ \E order \in OrdersOf(response) : CallSend(order)
    \/ \E err \in ChainErrors : \E order \in OrdersOf(response) : CallHandleResponse(err, order)
    \/ \E handled \in BOOLEAN : Fallback(handled)
    \/ NextRequest

SpecSend == InitSend /\ [][NextSend]_vars

(***************************************************************************)
(* What the configuration calls registered, read from their history.       *)
(***************************************************************************)
HandlePos(r) ==
    CHOOSE i \in 1..Len(configLog) :
        /\ configLog[i].op = "Handle"
        /\ Cardinality({j \in 1..i : configLog[j].op = "Handle"}) = r

RECURSIVE UsedUpTo(_)
UsedUpTo(n) ==
    IF n = 0 THEN <<>>
    ELSE UsedUpTo(n - 1) \o (IF configLog[n].op = "Use" THEN configLog[n].mws ELSE <<>>)

GlobalsBefore(r) == UsedUpTo(HandlePos(r) - 1)
AllGlobals == UsedUpTo(Len(configLog))
OwnOf(r) == configLog[HandlePos(r)].mws
Registered(r) == GlobalsBefore(r) \o OwnOf(r)

RECURSIVE Nest(_, _)
\* mw1(mw2(...mwn(terminal)...))
Nest(mws, terminal) ==
    IF mws = <<>> THEN terminal
    ELSE Wrap(Head(mws), Nest(Tail(mws), terminal))

IsPrefix(s, e) == Len(s) <= Len(e) /\ s = SubSeq(e, 1, Len(s))

PreEvents(L) == [i \in 1..Len(L) |-> [ev |-> "pre", idx |-> i, mw |-> L[i]]]
PostEvents(L, k) == [i \in 1..k |-> [ev |-> "post", idx |-> k + 1 - i, mw |-> L[k + 1 - i]]]
HandlerEvent(L, r) == [ev |-> "h", idx |-> Len(L) + 1, mw |-> Terminal(r)[1]]

\* pre-logic m1..mn, the handler, post-logic mn..m1
OnionOrder(L, r) == PreEvents(L) \o <<HandlerEvent(L, r)>> \o PostEvents(L, Len(L))

\* pre-logic m1..mk, post-logic m(k-1)..m1
ShortOrder(L, k) == SubSeq(PreEvents(L), 1, k) \o PostEvents(L, k - 1)

\* a middleware that returns without calling its delegate on this request
Declines(mw, rq) ==
    \/ mw.kind = "cors" /\ rq.method = "OPTIONS"
    \/ mw.kind = "useheaders" /\ ~rq.hdrOK
    \/ mw.kind = "usejsonbody" /\ ~rq.bodyOK

FirstDecliner(L, rq) ==
    LET D == {i \in 1..Len(L) : Declines(L[i], rq)}
    IN IF D = {} THEN 0 ELSE CHOOSE i \in D : \A j \in D : i <= j

\* the task has a request in hand
Active(t) == pc[t] # "idle"

\* the final handler has returned and the adapter has dispatched
Finished(t) == pc[t] = "done"

(***************************************************************************)
(* C1: one invocation of a composed handler whose middlewares m1..mn all   *)
(* delegate runs the pre-logic of m1, m2, .., mn in this order, then the   *)
(* terminal handler, then the post-logic of mn, .., m2, m1: at every       *)
(* moment what has run is a prefix of that order, and when the invocation  *)
(* has returned it is the whole of it.                                     *)
(***************************************************************************)
C1_OnionOrder ==
    \A t \in Tasks :
        Active(t) =>
            LET L == Registered(req[t].route)
            IN FirstDecliner(L, req[t]) = 0 =>
                  /\ IsPrefix(trace[t], OnionOrder(L, req[t].route))
                  /\ Finished(t) => trace[t] = OnionOrder(L, req[t].route)

C1_Witness ==
    \E t \in Tasks :
        /\ Active(t)
        /\ Finished(t)
        /\ LET L == Registered(req[t].route)
           IN /\ Len(L) = 3
              /\ L[1] # L[2] /\ L[2] # L[3] /\ L[1] # L[3]
              /\ FirstDecliner(L, req[t]) = 0
              /\ Len(trace[t]) = 7

(***************************************************************************)
(* C2: for every list of middlewares given to Apply (the empty list        *)
(* included) the handler built is mw1(mw2(...mwn(terminal)...)): it has    *)
(* one layer per middleware of the list, each middleware once, around the  *)
(* terminal handler; Compose gives the same handler as Apply; for the      *)
(* empty list the handler is the terminal handler itself.                  *)
(***************************************************************************)
Occurrences(s, x) == Cardinality({i \in 1..Len(s) : s[i] = x})

C2_ComposeIsNesting ==
    \A r \in 1..Len(app.routes) :
        LET rt == app.routes[r]
        IN /\ rt.handler = Nest(rt.applied, Terminal(r))
           /\ Compose(rt.applied, Terminal(r)) = rt.handler
           /\ Len(rt.handler) = Len(rt.applied) + 1
           /\ \A i \in 1..Len(rt.applied) :
                 Occurrences(rt.handler, rt.applied[i]) = Occurrences(rt.applied, rt.applied[i])
           /\ rt.applied = <<>> => rt.handler = Terminal(r)

C2_Witness ==
    /\ Len(app.routes) = 2
    /\ app.routes[1].applied = <<>>
    /\ Len(app.routes[2].applied) = 3
    /\ app.routes[2].applied[1] # app.routes[2].applied[2]

(***************************************************************************)
(* C3: when a middleware of the chain returns without calling its delegate *)
(* (cors on an OPTIONS request, header or body validation with issues), no *)
(* middleware registered after it and not the terminal handler runs for    *)
(* the request, and the post-logic of every middleware registered before   *)
(* it runs, innermost first.                                               *)
(***************************************************************************)
C3_ShortCircuit ==
    \A t \in Tasks :
        Active(t) =>
            LET L == Registered(req[t].route)
                k == FirstDecliner(L, req[t])
            IN k # 0 =>
                  /\ IsPrefix(trace[t], ShortOrder(L, k))
                  /\ \A i \in 1..Len(trace[t]) :
                        trace[t][i].idx <= k /\ trace[t][i].ev # "h"
                  /\ Finished(t) => trace[t] = ShortOrder(L, k)

C3_Witness ==
    \E t \in Tasks :
        /\ Active(t)
        /\ Finished(t)
        /\ LET L == Registered(req[t].route)
           IN /\ Len(L) = 3
              /\ FirstDecliner(L, req[t]) = 2
              /\ trace[t] = ShortOrder(L, 2)

(***************************************************************************)
(* C4 as claimed: for any sequence of Use and Handle calls, the chain a    *)
(* request to a route runs is all the global middlewares in registration   *)
(* order, then the route's own middlewares, then the handler.              *)
(***************************************************************************)
C4_AllGlobalsApplied ==
    \A t \in Tasks :
        Active(t) =>
            CurHandler(t) = Nest(AllGlobals \o OwnOf(req[t].route), Terminal(req[t].route))

(***************************************************************************)
(* C4 amended: the chain a request to a route runs is the global           *)
(* middlewares registered with Use before the route's Handle call, in      *)
(* registration order, then the route's own middlewares in argument order, *)
(* then the handler.                                                       *)
(***************************************************************************)
C4_GlobalsBeforeRoute ==
    \A t \in Tasks :
        Active(t) =>
            CurHandler(t) = Nest(GlobalsBefore(req[t].route) \o OwnOf(req[t].route),
                                 Terminal(req[t].route))

C4_Witness ==
    \E t \in Tasks :
        /\ Active(t)
        /\ Finished(t)
        /\ GlobalsBefore(req[t].route) # <<>>
        /\ OwnOf(req[t].route) # <<>>
        /\ AllGlobals # GlobalsBefore(req[t].route)
        /\ Len(trace[t]) = 2 * Len(Registered(req[t].route)) + 1

(***************************************************************************)
(* Two-tier resolution as the contract states it: the scoped registry      *)
(* published under "_scoped_services" first, the application's registry    *)
(* second.                                                                 *)
(***************************************************************************)
TwoTier(b, h, name) ==
    IF ScopedKey \in DOMAIN b /\ name \in DOMAIN h[b[ScopedKey]]
    THEN [found |-> TRUE, v |-> h[b[ScopedKey]][name]]
    ELSE IF name \in DOMAIN h[AppRef]
         THEN [found |-> TRUE, v |-> h[AppRef][name]]
         ELSE [found |-> FALSE, v |-> "nil"]

\* the entries of base, with those of over on top
Overlay(base, over) ==
    [n \in (DOMAIN base) \cup (DOMAIN over) |->
        IF n \in DOMAIN over THEN over[n] ELSE base[n]]

AtHandler(t) == pc[t] = "call" /\ CurLayer(t).kind = "handler"

\* the task is inside the chain of its request
InChain(t) == pc[t] \in {"call", "ret"}

(***************************************************************************)
(* C5: in every adapter, Service(name) and MustService(name) return the    *)
(* scoped registry's value when a scoped registry is published and holds   *)
(* the name, otherwise the application registry's value; when neither      *)
(* holds the name Service returns an error and MustService panics.         *)
(***************************************************************************)
C5_TwoTierEveryAdapter ==
    \A t \in Tasks :
        Active(t) =>
            \A name \in Names :
                LET e == TwoTier(bag[t], heap, name)
                    s == Service(adapter, bag[t], heap, name)
                    m == MustService(adapter, bag[t], heap, name)
                IN IF e.found
                   THEN /\ s.err = "nil" /\ s.v = e.v
                        /\ ~m.panic /\ m.v = e.v
                   ELSE s.err # "nil" /\ m.panic

(***************************************************************************)
(* C6: in a route that declares userService through UseServices while the  *)
(* application's registry holds a different userService, the handler's     *)
(* MustService("userService") returns the route's instance; in a route     *)
(* without UseServices it returns the application's instance; whatever the *)
(* interleaving of the requests, and no UseServices step changes the       *)
(* application's registry.                                                 *)
(***************************************************************************)
DeclaredBy(L, name) ==
    {i \in 1..Len(L) : L[i].kind = "useservices" /\ name \in DOMAIN L[i].svcs}

C6_Resolution ==
    \A t \in Tasks :
        (AtHandler(t) /\ "userService" \in DOMAIN heap[AppRef]) =>
            LET L == Registered(req[t].route)
                D == DeclaredBy(L, "userService")
                m == MustService(adapter, bag[t], heap, "userService")
            IN /\ D # {} =>
                    \E i \in D :
                        /\ L[i].svcs["userService"] # heap[AppRef]["userService"]
                        /\ m = [v |-> L[i].svcs["userService"], panic |-> FALSE]
               /\ (\A i \in 1..Len(L) : L[i].kind # "useservices") =>
                    m = [v |-> heap[AppRef]["userService"], panic |-> FALSE]

C6_AppUntouched ==
    \A t \in Tasks :
        (pc[t] = "call" /\ CurLayer(t).kind = "useservices" /\ depth'[t] # depth[t]) =>
            heap'[AppRef] = heap[AppRef]

C6_RouteScopedWins == [](C6_Resolution) /\ [][C6_AppUntouched]_vars

(***************************************************************************)
(* C7: the scoped registry UseServices publishes holds exactly the entries *)
(* of the application's registry at the time the middleware runs and the   *)
(* route's entries, the route's value for a name in both, and it is in the *)
(* bag when the delegate is invoked.                                       *)
(***************************************************************************)
C7_ScopedIsUnion ==
    [][\A t \in Tasks :
          (pc[t] = "call" /\ CurLayer(t).kind = "useservices" /\ depth'[t] # depth[t]) =>
              /\ pc'[t] = "call" /\ depth'[t] = depth[t] + 1
              /\ ScopedKey \in DOMAIN bag'[t]
              /\ heap'[bag'[t][ScopedKey]] = Overlay(heap[AppRef], CurLayer(t).svcs)]_vars

(***************************************************************************)
(* C8 as claimed, on the adapters whose Service consults the scoped        *)
(* registry: from the moment UseServices has delegated until the request   *)
(* completes, the value Service(name) resolves to does not change, for any *)
(* name, whatever later middlewares and concurrent tasks do.               *)
(***************************************************************************)
C8_ResolutionFrozen ==
    [][\A t \in Tasks :
          (/\ adapter \in {"nethttp", "fasthttp"}
           /\ InChain(t)
           /\ ScopedKey \in DOMAIN bag[t]
           /\ pc'[t] # "idle") =>
              \A name \in Names :
                  Service(adapter, bag'[t], heap', name) = Service(adapter, bag[t], heap, name)]_vars

(***************************************************************************)
(* C8 amended: once UseServices has built and published the scoped         *)
(* registry of a request, the contents of that registry do not change      *)
(* until the request is released, whatever later middlewares, the handler's *)
(* resolutions, concurrent requests and Register or Clear on the           *)
(* application's registry do.                                              *)
(***************************************************************************)
C8_ScopedRegistryFrozen ==
    [][\A t \in Tasks :
          (Active(t) /\ ScopedKey \in DOMAIN bag[t] /\ pc'[t] # "idle") =>
              /\ bag[t][ScopedKey] \in DOMAIN heap'
              /\ heap'[bag[t][ScopedKey]] = heap[bag[t][ScopedKey]]]_vars

C8_Witness ==
    \E t \in Tasks :
        /\ InChain(t)
        /\ ScopedKey \in DOMAIN bag[t]
        /\ \E name \in DOMAIN heap[bag[t][ScopedKey]] :
              /\ heap[bag[t][ScopedKey]][name] \in AppValues
              /\ name \notin DOMAIN heap[AppRef]

(***************************************************************************)
(* C9: whatever the interleaving of Register, Get, MustGet, Has, All and   *)
(* Clear calls of several tasks on one Container, a task that mutates the  *)
(* map never holds the map together with another task, mutating or         *)
(* reading; the callers take no lock of their own.                         *)
(***************************************************************************)
\* the task is between taking and releasing the mutex: it accesses the map
Accessing(w) == wpc[w] \in {"body", "unlock"}
Mutating(w) == Accessing(w) /\ wop[w].method \in Mutators

C9_WritersExclusive ==
    \A w1, w2 \in Workers :
        (w1 # w2 /\ Mutating(w1)) => ~Accessing(w2)

C9_Witness ==
    \E w1, w2 \in Workers :
        /\ w1 # w2
        /\ Mutating(w1)
        /\ wpc[w2] = "lock"
        /\ Len(oplog) >= 1

(***************************************************************************)
(* C10: Register never fails and overwrites silently: after any sequence   *)
(* of Register and Clear calls, Get(name) returns the value of the most    *)
(* recent Register(name, _) that no Clear followed, and an error when      *)
(* there is none; a Register leaves the entries of other names unchanged.  *)
(***************************************************************************)
RECURSIVE LastRegistered(_, _, _)
\* scan the calls from the latest to the earliest
LastRegistered(log, i, name) ==
    IF i = 0 \/ log[i].method = "Clear"
    THEN [v |-> "nil", err |-> "notfound"]
    ELSE IF log[i].method = "Register" /\ log[i].name = name
         THEN [v |-> log[i].service, err |-> "nil"]
         ELSE LastRegistered(log, i - 1, name)

C10_LastRegisterWins ==
    \A name \in Names :
        Get(heap[AppRef], name) = LastRegistered(oplog, Len(oplog), name)

C10_Witness ==
    /\ Len(oplog) = 2
    /\ oplog[1].method = "Register"
    /\ oplog[2].method = "Register"
    /\ oplog[1].name = oplog[2].name
    /\ oplog[1].service # oplog[2].service

(***************************************************************************)
(* C11: Get(name) returns an error exactly when the name is absent from    *)
(* the registry, that is when no Register(name, _) took effect since the   *)
(* last Clear; a registered nil value is no error.  MustGet(name) panics   *)
(* exactly when Get(name) returns an error and Has(name) is true exactly   *)
(* when Get(name) succeeds, in the registry's state and in what every      *)
(* call returns to its caller.                                             *)
(***************************************************************************)
Present(name) == LastRegistered(oplog, Len(oplog), name).err = "nil"

C11_GetErrIffAbsent ==
    /\ \A name \in Names :
          LET m == heap[AppRef]
          IN /\ (Get(m, name).err # "nil") <=> ~Present(name)
             /\ MustGet(m, name).panic <=> (Get(m, name).err # "nil")
             /\ Has(m, name) <=> (Get(m, name).err = "nil")
    /\ \A w \in Workers :
          wpc[w] = "unlock" =>
             /\ wop[w].method = "Get" => ((wret[w].err # "nil") <=> ~Present(wop[w].name))
             /\ wop[w].method = "MustGet" => (wret[w].panic <=> ~Present(wop[w].name))
             /\ wop[w].method = "Has" => (wret[w] <=> Present(wop[w].name))

C11_Witness ==
    \E w1, w2 \in Workers :
        /\ wpc[w1] = "unlock" /\ wop[w1].method = "Get"
        /\ wop[w1].name \in DOMAIN heap[AppRef]
        /\ heap[AppRef][wop[w1].name] = "nilSvc"
        /\ wret[w1] = [v |-> "nilSvc", err |-> "nil"]
        /\ wpc[w2] = "unlock" /\ wop[w2].method = "MustGet"
        /\ wret[w2].panic

(***************************************************************************)
(* C12: the map All() returns equals the registry's contents at the time   *)
(* of the call; a Register or a Clear on the registry that takes effect    *)
(* later does not change the returned map, and a write of the caller to    *)
(* the returned map does not change the registry.                          *)
(***************************************************************************)
Holding(w) == wpc[w] = "holding"

C12_EqualAtCall ==
    \A w \in Workers :
        (wpc[w] = "unlock" /\ wop[w].method = "All") =>
            /\ wret[w] \in DOMAIN heap
            /\ heap[wret[w]] = heap[AppRef]

C12_Independent ==
    \A w \in Workers :
        (Holding(w) /\ Holding(w)') =>
            /\ heap'[AppRef] # heap[AppRef] => heap'[wret[w]] = heap[wret[w]]
            /\ heap'[wret[w]] # heap[wret[w]] => heap'[AppRef] = heap[AppRef]

C12_AllIsSnapshot == [](C12_EqualAtCall) /\ [][C12_Independent]_vars

C12_Witness ==
    \E w \in Workers :
        /\ Holding(w)
        /\ DOMAIN heap[wret[w]] = {"userService", "authService"}
        /\ heap[wret[w]]["userService"] = "callerSvc"
        /\ heap[wret[w]]["authService"] = "appSvc"
        /\ heap[AppRef] = EmptyMap
        /\ Len(oplog) = 2

(***************************************************************************)
(* The outcome of Send, read from the calls it made and from the           *)
(* transport.                                                              *)
(***************************************************************************)
\* Send has run for the Response
Sent == spc \in {"sent", "handled"} /\ sends > 0

StatusCallsAt == {i \in 1..Len(ctxlog) : ctxlog[i].op = "Status"}

\* the transport at the moment Send calls Status
AtStatus == CtxCalls(adapter, NewTransport, ctxlog, (CHOOSE i \in StatusCallsAt : TRUE) - 1)

\* the values the Response sets explicitly for the Content-Type header
ExplicitContentType ==
    {response.Headers[n] : n \in {m \in DOMAIN response.Headers : Canonical(m) = "Content-Type"}}

(***************************************************************************)
(* C13: Send calls Status once, after every header and cookie call; when   *)
(* it calls Status the transport already holds every accumulated header,   *)
(* every accumulated cookie and the inferred Content-Type, whatever the    *)
(* body and whatever the order of the builder calls; the headers are in    *)
(* the output.                                                             *)
(***************************************************************************)
C13_WrittenBeforeStatus ==
    Sent =>
        /\ Cardinality(StatusCallsAt) = 1
        /\ \A i \in 1..Len(ctxlog) : \A k \in StatusCallsAt :
              ctxlog[i].op \in {"SetHeader", "SetCookie"} => i < k
        /\ \A n \in DOMAIN response.Headers :
              /\ Canonical(n) \in DOMAIN AtStatus.headers
              /\ Canonical(n) \in DOMAIN out.headers
              /\ Canonical(n) # "Content-Type" =>
                    /\ AtStatus.headers[Canonical(n)] = response.Headers[n]
                    /\ out.headers[Canonical(n)] = response.Headers[n]
        /\ AtStatus.cookies = response.Cookies
        /\ response.Body.kind # "nil" => "Content-Type" \in DOMAIN AtStatus.headers
        /\ out.status = response.StatusCode

(***************************************************************************)
(* C14: after Send the response on the transport carries a Set-Cookie      *)
(* line for every cookie accumulated with WithCookie, in accumulation      *)
(* order, in every adapter.                                                *)
(***************************************************************************)
C14_CookiesReachTransport ==
    Sent => out.cookies = response.Cookies

(***************************************************************************)
(* C15: a string body is sent as it is with Content-Type text/plain, any   *)
(* other non-nil body as its JSON encoding with Content-Type               *)
(* application/json; when the Response sets a Content-Type header          *)
(* explicitly, the output carries the explicit value.                      *)
(***************************************************************************)
C15_ContentTypeInferred ==
    (Sent /\ response.Body.kind # "nil") =>
        /\ "Content-Type" \in DOMAIN out.headers
        /\ IF ExplicitContentType # {}
           THEN out.headers["Content-Type"] \in ExplicitContentType
           ELSE out.headers["Content-Type"] =
                   (IF response.Body.kind = "string" THEN "text/plain" ELSE "application/json")
        /\ out.body = (IF response.Body.kind = "string"
                       THEN RawBytes(response.Body.val) ELSE JSONBytes(response.Body))

(***************************************************************************)
(* C16: when the body is unset, nil or empty, Send writes the accumulated  *)
(* headers and cookies and the status only: it infers no Content-Type and  *)
(* writes no body bytes.                                                   *)
(***************************************************************************)
BodyUnset(r) == r.Body.kind = "nil" \/ (r.Body.kind = "string" /\ r.Body.val = "")

C16_UnsetBodyStatusOnly ==
    (Sent /\ BodyUnset(response)) =>
        /\ out.body = <<>>
        /\ out.status = response.StatusCode
        /\ \A i \in 1..Len(ctxlog) :
              ctxlog[i].op = "SetHeader" =>
                 /\ ctxlog[i].name \in DOMAIN response.Headers
                 /\ ctxlog[i].value = response.Headers[ctxlog[i].name]
        /\ ExplicitContentType = {} => "Content-Type" \notin DOMAIN out.headers

(***************************************************************************)
(* C17: HandleResponse(ctx, resp, err) returns err and leaves the          *)
(* transport as it was when err is not nil, whether or not there is a      *)
(* response; sends resp with Send exactly once when err is nil and resp is *)
(* not nil; writes nothing and returns nil when both are nil.              *)
(***************************************************************************)
C17_HandleResponseTotal ==
    spc = "handled" =>
        /\ herr # "nil" =>
              /\ sret = herr
              /\ out = NewTransport /\ ctxlog = <<>> /\ sends = 0
        /\ (herr = "nil" /\ response # NoResponse) =>
              /\ sends = 1
              /\ \E order \in Orders(response.Headers) :
                    /\ ctxlog = SendCalls(response, order)
                    /\ out = CtxCalls(adapter, NewTransport, ctxlog, Len(ctxlog))
              /\ sret = SendError(response)
        /\ (herr = "nil" /\ response = NoResponse) =>
              /\ sret = "nil"
              /\ out = NewTransport /\ ctxlog = <<>> /\ sends = 0

C17_Witness ==
    /\ spc = "handled"
    /\ herr # "nil"
    /\ response # NoResponse
    /\ response.Body.kind = "map"
    /\ Len(response.Cookies) = 1
    /\ DOMAIN response.Headers # {}
    /\ sret = herr

(***************************************************************************)
(* C18: in every adapter, when the composed chain of a request returns an  *)
(* error to the adapter (no error-handling middleware translated it), the  *)
(* adapter writes a generic 500 response for the request.                  *)
(***************************************************************************)
C18_Unhandled500 ==
    \A t \in Tasks :
        (Finished(t) /\ result[t].err # "nil") =>
            /\ wire[t] # <<>>
            /\ wire[t][Len(wire[t])].status = 500

(***************************************************************************)
(* C19: when the chain the error handler wraps returns an error, the error *)
(* handler returns no error and the answer is, for a structured HTTP       *)
(* error, the error's status code with the JSON body {"error": message},   *)
(* and for any other error 500 with {"error": "Internal Server Error"};    *)
(* when the wrapped chain returns no error, what it returned is passed on  *)
(* unchanged.                                                              *)
(***************************************************************************)
\* the answer of a task after a step: the Response returned or, when none
\* is returned, what the step has written
AnswerAfter(res, before, after) ==
    IF res.resp # 0 THEN <<Written(res.resp, res.body)>>
    ELSE SubSeq(after, Len(before) + 1, Len(after))

C19_Translated ==
    \A t \in Tasks :
        (/\ pc[t] = "ret" /\ depth[t] >= 1
         /\ CurLayer(t).kind = "errorhandler"
         /\ depth'[t] = depth[t] - 1) =>
            IF result[t].err # "nil"
            THEN /\ result'[t].err = "nil"
                 /\ AnswerAfter(result'[t], wire[t], wire'[t]) =
                       (IF GetHTTPError(result[t].err).ok
                        THEN <<Written(GetHTTPError(result[t].err).Code,
                                       ErrorBody(GetHTTPError(result[t].err).Message))>>
                        ELSE <<Written(500, ErrorBody("Internal Server Error"))>>)
            ELSE result'[t] = result[t] /\ wire'[t] = wire[t]

C19_ErrorHandlerTranslates == [][C19_Translated]_vars

(***************************************************************************)
(* C20: when the validator reports issues, the body-validation and the     *)
(* header-validation middleware return a structured HTTP error with status *)
(* 400 as their error, do not call their delegate and leave their key of   *)
(* the bag unset; when it reports none they store the parsed value under   *)
(* their key ("_jsonBody", "_headers" or the custom key) and call the      *)
(* delegate.                                                               *)
(***************************************************************************)
Validating(t) == pc[t] = "call" /\ CurLayer(t).kind \in {"useheaders", "usejsonbody"}

ValidationIssues(t) ==
    IF CurLayer(t).kind = "useheaders" THEN HeaderIssues(req[t]) ELSE BodyIssues(req[t])

C20_Validated ==
    \A t \in Tasks :
        (Validating(t) /\ trace'[t] # trace[t]) =>
            IF ValidationIssues(t)
            THEN /\ GetHTTPError(result'[t].err).ok
                 /\ GetHTTPError(result'[t].err).Code = 400
                 /\ pc'[t] = "ret" /\ depth'[t] = depth[t] - 1
                 /\ bag'[t] = bag[t]
            ELSE /\ CurLayer(t).key \in DOMAIN bag'[t]
                 /\ bag'[t][CurLayer(t).key] = "dest"
                 /\ pc'[t] = "call" /\ depth'[t] = depth[t] + 1

C20_ValidationSurfaces400 == [][C20_Validated]_vars

(***************************************************************************)
(* Specification of the registrations: Use calls with one middleware and   *)
(* Handle calls in any order, on an application that is not started.       *)
(***************************************************************************)
NextRegister ==
    \/ \E mw \in {Cors, Logging} : UseUpTo(<<mw>>, MaxUses)
    \/ \E own \in SeqsUpTo({UseHeaders, UseJsonBody}, 1) : Handle(own)

SpecRegister == Init /\ [][NextRegister]_vars

(***************************************************************************)
(* Specification of the validated routes: the route of the example that    *)
(* parses its JSON body behind UseService, and a route that parses its     *)
(* headers, serve concurrent requests.                                     *)
(***************************************************************************)
ValidateCalls ==
    << [op |-> "Handle", mws |-> <<UseSvcUser, UseJsonBody>>],
       [op |-> "Handle", mws |-> <<UseHeaders>>] >>

InitValidate ==
    /\ adapter \in Adapters
    /\ started = TRUE
    /\ app = Configured(ValidateCalls, Len(ValidateCalls))
    /\ configLog = ValidateCalls
    /\ heap = [c \in {AppRef} |-> EmptyMap]
    /\ InitTasks
    /\ InitLock
    /\ InitResponse
    /\ InitUnit

NextValidate ==
    \E t \in Tasks :
        \/ \E r \in 1..Len(app.routes) : \E rq \in RequestsFor(r) : Arrive(t, rq)
        \/ UseServicesMw(t)
        \/ UseJsonBodyMw(t)
        \/ UseHeadersMw(t)
        \/ RunHandler(t, "respond", "userService")
        \/ Return(t)
        \/ Dispatch(t)
        \/ Release(t)

SpecValidate == InitValidate /\ [][NextValidate]_vars

(***************************************************************************)
(* Specification of the derived Contexts: middlewares of one request set   *)
(* values on its Context and derive Contexts from it with WithContext.     *)
(***************************************************************************)
BagKeys == {"user", "trace"}
BagValues == {"v1", "v2"}

\* contextImpl.WithContext: net/http and fasthttp build a contextImpl holding
\* the same values map; gin builds it on ctx.Copy(), whose Keys are a new map
\* filled with the entries of the original
WithContext(ad, c, cs, st) ==
    IF ad \in {"nethttp", "fasthttp"}
    THEN [ctxs |-> Append(cs, [values |-> cs[c].values]), store |-> st]
    ELSE [ctxs |-> Append(cs, [values |-> Len(st) + 1]),
          store |-> Append(st, st[cs[c].values])]

\* contextImpl.Get
CtxGet(c, key) ==
    IF key \in DOMAIN store[ctxs[c].values]
    THEN [value |-> store[ctxs[c].values][key], ok |-> TRUE]
    ELSE [value |-> None, ok |-> FALSE]

UnitFrame ==
    /\ UNCHANGED <<heap>>
    /\ UNCHANGED appVars
    /\ UNCHANGED reqVars
    /\ UNCHANGED lockVars
    /\ UNCHANGED sendVars

\* derived := ctx.WithContext(c)
Derive(c) ==
    /\ Len(ctxs) < 1 + MaxDerived
    /\ ctxs' = WithContext(adapter, c, ctxs, store).ctxs
    /\ store' = WithContext(adapter, c, ctxs, store).store
    /\ UNCHANGED <<lastSet, matching, router, fallback, dest>>
    /\ UnitFrame

\* contextImpl.Set
CtxSet(c, key, value) ==
    /\ store' = [store EXCEPT ![ctxs[c].values] = BagSet(@, key, value)]
    /\ lastSet' = [ctx |-> c, key |-> key, value |-> value, derived |-> Len(ctxs) - 1]
    /\ UNCHANGED <<ctxs, matching, router, fallback, dest>>
    /\ UnitFrame

InitDerive ==
    /\ adapter \in Adapters
    /\ started = TRUE
    /\ app = NewApp
    /\ configLog = <<>>
    /\ heap = [c \in {AppRef} |-> EmptyMap]
    /\ InitTasks
    /\ InitLock
    /\ InitResponse
    /\ InitUnit

NextDerive ==
    \/ \E c \in 1..Len(ctxs) : Derive(c)
    \/ \E c \in 1..Len(ctxs) : \E key \in BagKeys : \E value \in BagValues :
          CtxSet(c, key, value)

SpecDerive == InitDerive /\ [][NextDerive]_vars

(***************************************************************************)
(* Specification of matchPattern: a pattern and a path are drawn and       *)
(* matched.  A route pattern names each of its parameters once.            *)
(***************************************************************************)
Parts(s) == Split(Trim(s))

ParamPositions(parts) == {i \in 1..Len(parts) : IsParam(parts[i])}

Patterns ==
    {p \in Strings(PatternTokens, MaxPathLen) :
        \A i, j \in ParamPositions(Parts(p)) :
            ParamName(Parts(p)[i]) = ParamName(Parts(p)[j]) => i = j}

Paths == Strings(PathTokens, MaxPathLen)

InitMatch ==
    /\ adapter = "nethttp"
    /\ started = FALSE
    /\ app = NewApp
    /\ configLog = <<>>
    /\ heap = [c \in {AppRef} |-> EmptyMap]
    /\ InitTasks
    /\ InitLock
    /\ InitResponse
    /\ InitContexts
    /\ InitRouter
    /\ fallback = <<>>
    /\ dest = EmptyMap
    /\ matching \in [pattern : Patterns, path : Paths, done : {FALSE}, result : {NoMatch}]

\* params := matchPattern(route.pattern, path)
MatchPattern ==
    /\ ~matching.done
    /\ matching' = [matching EXCEPT !.done = TRUE,
                                    !.result = matchPattern(matching.pattern, matching.path)]
    /\ UNCHANGED <<ctxs, store, lastSet, router, fallback, dest, heap>>
    /\ UNCHANGED appVars
    /\ UNCHANGED reqVars
    /\ UNCHANGED lockVars
    /\ UNCHANGED sendVars

NextMatch == MatchPattern

SpecMatch == InitMatch /\ [][NextMatch]_vars

(***************************************************************************)
(* Specification of the routing: an application of the net/http adapter    *)
(* with the CORS middleware registers routes and serves requests of any    *)
(* method and path.                                                        *)
(***************************************************************************)
RouteMethods == {"GET", "POST"}
RequestMethods == {"GET", "POST", "OPTIONS"}
RoutePatterns == {<<Slash, "a">>, <<Slash, ":x">>, <<Slash, "a", Slash, ":x">>}

InitRouting ==
    /\ adapter = "nethttp"
    /\ started = FALSE
    /\ app = AppUse(NewApp, <<Cors>>)
    /\ configLog = << [op |-> "Use", mws |-> <<Cors>>] >>
    /\ heap = [c \in {AppRef} |-> EmptyMap]
    /\ InitTasks
    /\ InitLock
    /\ InitResponse
    /\ InitUnit

\* App.Handle(method, path, handler): the final handler of the route is
\* registered with the Router
HandleRoute(method, pattern) ==
    /\ ~started
    /\ Len(app.routes) < MaxRoutes
    /\ app' = AppHandle(app, <<>>)
    /\ configLog' = Append(configLog, [op |-> "Handle", mws |-> <<>>])
    /\ router' = RouterHandle(router, method, pattern, Len(app.routes) + 1)
    /\ UNCHANGED <<adapter, started, heap>>
    /\ UNCHANGED <<ctxs, store, lastSet, matching, fallback, dest>>
    /\ UNCHANGED reqVars
    /\ UNCHANGED lockVars
    /\ UNCHANGED sendVars

\* the function App.Start gives to the mux: the request is looked up in the
\* Router; without a handler it is answered with http.NotFound, otherwise
\* the handler of the route is called
Receive(t, method, path) ==
    /\ started
    /\ pc[t] = "idle"
    /\ LET found == RouterMatch(router, method, path)
       IN /\ req' = [req EXCEPT ![t] =
                        [route |-> found.handler, method |-> method,
                         hdrOK |-> TRUE, bodyOK |-> TRUE,
                         path |-> path, params |-> found.params]]
          /\ bag' = [bag EXCEPT ![t] = NewBag(adapter)]
          /\ IF found.handler = 0
             THEN /\ wire' = [wire EXCEPT ![t] =
                        Append(wire[t], Written(404, TextBody("404 page not found")))]
                  /\ pc' = [pc EXCEPT ![t] = "done"]
                  /\ UNCHANGED depth
             ELSE /\ pc' = [pc EXCEPT ![t] = "call"]
                  /\ depth' = [depth EXCEPT ![t] = 1]
                  /\ UNCHANGED wire
    /\ UNCHANGED <<trace, result, heap>>
    /\ UNCHANGED <<ctxs, store, lastSet, matching, router, fallback, dest>>
    /\ UNCHANGED appVars
    /\ UNCHANGED lockVars
    /\ UNCHANGED sendVars

NextRouting ==
    \/ \E method \in RouteMethods : \E pattern \in RoutePatterns :
          HandleRoute(method, pattern)
    \/ Start
    \/ \E method \in RequestMethods : \E path \in Paths : Receive(1, method, path)
    \/ CorsMw(1)
    \/ RunHandler(1, "respond", "userService")
    \/ Return(1)
    \/ Dispatch(1)
    \/ Release(1)

SpecRouting == InitRouting /\ [][NextRouting]_vars

(***************************************************************************)
(* C21: a panic of MustService in the final handler is caught by no layer  *)
(* of the chain: from the moment it is raised the task does                *)
(* nothing but unwind, layer by layer, to the adapter; no layer turns it   *)
(* into an error or a response, runs its post-logic, or writes a status or *)
(* a body; the request ends aborted.                                       *)
(***************************************************************************)
Panicking(t) == pc[t] \in {"panic", "panicked"}

C21_Uncaught ==
    \A t \in Tasks :
        /\ (pc[t] = "call" /\ pc'[t] = "panic") =>
               /\ CurLayer(t).kind = "handler"
               /\ \E name \in Names : MustService(adapter, bag[t], heap, name).panic
        /\ pc[t] = "panic" =>
               /\ pc'[t] \in {"panic", "panicked"}
               /\ pc'[t] = "panicked" => depth[t] = 0
               /\ depth'[t] \in {depth[t], depth[t] - 1}
               /\ result'[t] = result[t] /\ wire'[t] = wire[t] /\ trace'[t] = trace[t]
        /\ pc[t] = "panicked" =>
               \/ pc'[t] = "idle"
               \/ pc'[t] = "panicked" /\ result'[t] = result[t] /\ wire'[t] = wire[t]

C21_PanicPropagates == [][C21_Uncaught]_vars

C21_Witness ==
    \E t \in Tasks :
        /\ pc[t] = "panicked"
        /\ {"cors", "logging", "errorhandler", "useservices"} \subseteq Kinds(CurHandler(t))
        /\ result[t] = NoResult
        /\ wire[t] = <<>>
        /\ \A i \in 1..Len(trace[t]) : trace[t][i].ev # "post"

(***************************************************************************)
(* C22: the Contexts derived with WithContext share the bag of the         *)
(* original on every adapter: the value last set for a key, on the         *)
(* original or on a derived Context, before or after the derivation, is    *)
(* what Get returns for the key on every Context of the request.           *)
(***************************************************************************)
C22_SharedBag ==
    lastSet # NoSet =>
        \A c \in 1..Len(ctxs) :
            CtxGet(c, lastSet.key) = [value |-> lastSet.value, ok |-> TRUE]

\* a value set before the derivation is visible on the derived Context
C22_SetBeforeVisible ==
    (lastSet # NoSet /\ lastSet.derived = 0) =>
        \A c \in 1..Len(ctxs) :
            CtxGet(c, lastSet.key) = [value |-> lastSet.value, ok |-> TRUE]

(***************************************************************************)
(* C23: matchPattern matches a path exactly when the pattern and the path  *)
(* have the same number of segments and every literal segment of the       *)
(* pattern equals the segment of the path at its position; on a match the  *)
(* parameters are the names of the pattern, each mapped to the segment of  *)
(* the path at its position; a path with another segment count never       *)
(* matches.                                                                *)
(***************************************************************************)
SegmentsAgree(pattern, path) ==
    /\ Len(Parts(pattern)) = Len(Parts(path))
    /\ \A i \in 1..Len(Parts(pattern)) :
          ~IsParam(Parts(pattern)[i]) => Parts(pattern)[i] = Parts(path)[i]

C23_MatchPattern ==
    matching.done =>
        LET patternParts == Parts(matching.pattern)
            pathParts == Parts(matching.path)
        IN /\ matching.result.ok <=> SegmentsAgree(matching.pattern, matching.path)
           /\ Len(patternParts) # Len(pathParts) => ~matching.result.ok
           /\ matching.result.ok =>
                 /\ DOMAIN matching.result.params =
                       {ParamName(patternParts[i]) : i \in ParamPositions(patternParts)}
                 /\ \A i \in ParamPositions(patternParts) :
                       matching.result.params[ParamName(patternParts[i])] = pathParts[i]

\* /:x/:y matched against /1/a gives {x: "1", y: "a"}
C23_Witness ==
    /\ matching.done
    /\ matching.result.ok
    /\ matching.pattern = <<Slash, ":x", Slash, ":y">>
    /\ matching.path = <<Slash, "1", Slash, "a">>
    /\ matching.result.params[<<":x">>] = <<"1">>
    /\ matching.result.params[<<":y">>] = <<"a">>

(***************************************************************************)
(* C29: Router.Match returns the handler of the earliest-registered route  *)
(* whose method equals the request method and whose pattern matches the    *)
(* path, with the parameters of that route; a later route that matches too *)
(* and a route of another method are never selected; without such a route  *)
(* it returns no handler.                                                  *)
(***************************************************************************)
Eligible(method, path) ==
    {i \in 1..Len(router) :
        router[i].method = method /\ SegmentsAgree(router[i].pattern, path)}

Looked(t) == pc[t] # "idle"

C29_EarliestRoute ==
    \A t \in Tasks :
        Looked(t) =>
            LET e == Eligible(req[t].method, req[t].path)
                found == [handler |-> req[t].route, params |-> req[t].params]
            IN IF e = {}
               THEN found = NoRoute
               ELSE /\ found.handler \in e
                    /\ \A i \in e : found.handler <= i
                    /\ router[found.handler].method = req[t].method
                    /\ found.params =
                          matchPattern(router[found.handler].pattern, req[t].path).params

\* two routes match the request and the first one was selected, with its
\* parameter
C29_Witness ==
    \E t \in Tasks :
        /\ Looked(t)
        /\ Cardinality(Eligible(req[t].method, req[t].path)) = 2
        /\ req[t].route = 1
        /\ router[1].pattern = <<Slash, ":x">>
        /\ req[t].params # EmptyMap
        /\ pc[t] = "done"

(***************************************************************************)
(* C30: a request whose method and path match no registered route is       *)
(* answered with 404 by the adapter and no layer of any chain runs for it: *)
(* neither a global middleware such as CORS nor a handler.                 *)
(***************************************************************************)
C30_UnmatchedIs404 ==
    \A t \in Tasks :
        (Looked(t) /\ Eligible(req[t].method, req[t].path) = {}) =>
            /\ pc[t] = "done"
            /\ trace[t] = <<>>
            /\ result[t] = NoResult
            /\ wire[t] = <<Written(404, TextBody("404 page not found"))>>

\* an OPTIONS preflight for a path registered under GET only
C30_Witness ==
    \E t \in Tasks :
        /\ Looked(t)
        /\ req[t].method = "OPTIONS"
        /\ \E i \in 1..Len(router) : SegmentsAgree(router[i].pattern, req[t].path)
        /\ "cors" \in Kinds(app.routes[1].handler)
        /\ wire[t] = <<Written(404, TextBody("404 page not found"))>>

(***************************************************************************)
(* C24: the status line is committed at most once per request: over the    *)
(* Send of the response and the answer to an error it returns (by the      *)
(* error handler or by the adapter), Status is called on the Context at    *)
(* most once.                                                              *)
(***************************************************************************)
C24_StatusOnce == StatusCount(ctxlog) + StatusCount(fallback) <= 1

(***************************************************************************)
(* C25: under concurrent requests to a route guarded by UseJsonBody or     *)
(* UseHeaders, the validated value the handler reads from the bag of its   *)
(* Context is the one parsed from its own request.                         *)
(***************************************************************************)
\* the layers of the chain of task t that parsed its request
ParsedLayers(t) ==
    {d \in 1..Len(CurHandler(t)) :
        /\ CurHandler(t)[d].kind \in {"useheaders", "usejsonbody"}
        /\ CurHandler(t)[d].key \in DOMAIN bag[t]}

\* the final handler of task t is about to run
InHandler(t) == pc[t] = "call" /\ CurLayer(t).kind = "handler"

C25_OwnValue ==
    \A t \in Tasks :
        InHandler(t) =>
            \A d \in ParsedLayers(t) : dest[<<req[t].route, d>>] = t

(***************************************************************************)
(* C26: after any sequence of Use and Handle calls the chain of each       *)
(* registered route is the global middlewares present when the route was   *)
(* registered, then the route's own middlewares, then its handler; no      *)
(* later Use or Handle call changes it, whether or not the slice its       *)
(* Handle call built shares its array with a.middlewares and with the      *)
(* slices of other routes.                                                 *)
(***************************************************************************)
C26_ChainsAsRegistered ==
    \A r \in 1..Len(app.routes) :
        RouteHandler(app, r) = Nest(GlobalsBefore(r) \o OwnOf(r), Terminal(r))

C26_RoutesUntouched ==
    \A r \in 1..Len(app.routes) :
        /\ r <= Len(app'.routes)
        /\ RouteHandler(app', r) = RouteHandler(app, r)

C26_RouteChainsFixed == []C26_ChainsAsRegistered /\ [][C26_RoutesUntouched]_vars

\* two routes with different middlewares whose slices share the array of
\* a.middlewares: the slot the first route's middleware was stored in was
\* written again by the second Handle call and by a later Use call
C26_Witness ==
    /\ Len(app.routes) = 2
    /\ app.routes[1].slice.arr = app.slice.arr
    /\ app.routes[2].slice.arr = app.slice.arr
    /\ OwnOf(1) # <<>> /\ OwnOf(2) # <<>> /\ OwnOf(1) # OwnOf(2)
    /\ SliceContents(app.arrays, app.routes[1].slice) # app.routes[1].applied
    /\ SliceContents(app.arrays, app.routes[2].slice) # app.routes[2].applied
    /\ AllGlobals # GlobalsBefore(2)
    /\ C26_ChainsAsRegistered

(***************************************************************************)
(* C27: in the handler of a route with two UseServices middlewares, the    *)
(* registry published in the Context is the container of the inner one; it *)
(* holds the inner middleware's services and, for the rest, values of the  *)
(* application's registry only; the handler's Service resolves every       *)
(* service of the inner middleware to the inner middleware's instance and  *)
(* every service of the application's registry, and never resolves a name  *)
(* declared by the outer middleware alone to the outer's instance: such a  *)
(* name is an error unless the application's registry supplied it.         *)
(***************************************************************************)
UseServicesLayers(L) == {i \in 1..Len(L) : L[i].kind = "useservices"}

Outer(L) == CHOOSE i \in UseServicesLayers(L) : \A j \in UseServicesLayers(L) : i <= j

Inner(L) == CHOOSE i \in UseServicesLayers(L) : \A j \in UseServicesLayers(L) : j <= i

TwoUseServices(t) ==
    /\ AtHandler(t)
    /\ Cardinality(UseServicesLayers(Registered(req[t].route))) = 2

C27_InnerReplacesOuter ==
    \A t \in Tasks :
        TwoUseServices(t) =>
            LET L == Registered(req[t].route)
                inner == L[Inner(L)].svcs
                outer == L[Outer(L)].svcs
                scoped == GetScopedServices(bag[t])
            IN /\ scoped = NewContainer(t, Inner(L))
               /\ \A name \in DOMAIN heap[scoped] :
                     IF name \in DOMAIN inner
                     THEN heap[scoped][name] = inner[name]
                     ELSE heap[scoped][name] \in AppValues
               /\ \A name \in DOMAIN inner :
                     Service(adapter, bag[t], heap, name)
                        = [v |-> inner[name], err |-> "nil"]
               /\ \A name \in (DOMAIN heap[AppRef]) \ (DOMAIN inner) :
                     LET s == Service(adapter, bag[t], heap, name)
                     IN s.err = "nil" /\ s.v \in AppValues
               /\ \A name \in (DOMAIN outer) \ (DOMAIN inner) :
                     LET s == Service(adapter, bag[t], heap, name)
                     IN /\ s.v # outer[name]
                        /\ (name \notin DOMAIN heap[scoped]
                            /\ name \notin DOMAIN heap[AppRef]) => s.err # "nil"

\* the same, on the adapters whose Context reads the scoped registry
C27_OnTwoTierAdapters ==
    adapter \in {"nethttp", "fasthttp"} => C27_InnerReplacesOuter

\* the handler of the route of two UseServices runs while the outer's
\* service is in no registry the handler can read
C27_Witness ==
    \E t \in Tasks :
        /\ TwoUseServices(t)
        /\ adapter \in {"nethttp", "fasthttp"}
        /\ Service(adapter, bag[t], heap, "authService").err # "nil"
        /\ Service(adapter, bag[t], heap, "userService").v = "routeUser"

(***************************************************************************)
(* C28: at every moment of a request and for every name, MustService       *)
(* returns the value v exactly when Service returns (v, nil), and          *)
(* MustService panics exactly when Service returns an error; the scoped    *)
(* tier is tested with Get succeeding by the one and with Has by the       *)
(* other, and the two tests agree on every registry, one that holds a nil  *)
(* service included.                                                       *)
(***************************************************************************)
Registries == UNION {[N -> ContainerValues] : N \in SUBSET Names}

GetAgreesWithHas ==
    \A m \in Registries : \A name \in Names :
        Has(m, name) <=> Get(m, name).err = "nil"

C28_ServiceAgreesWithMust ==
    /\ GetAgreesWithHas
    /\ \A t \in Tasks :
          Active(t) =>
              \A name \in Names :
                  LET s == Service(adapter, bag[t], heap, name)
                      m == MustService(adapter, bag[t], heap, name)
                  IN /\ m.panic <=> s.err # "nil"
                     /\ ~m.panic => m.v = s.v

\* a handler runs where the scoped registry alone holds one name and no
\* registry holds the other: the one is returned by both accessors, the
\* other is an error of Service and a panic of MustService
C28_Witness ==
    \E t \in Tasks :
        /\ AtHandler(t)
        /\ ScopedKey \in DOMAIN bag[t]
        /\ \E name \in Names :
              /\ name \in DOMAIN heap[bag[t][ScopedKey]]
              /\ name \notin DOMAIN heap[AppRef]
              /\ Service(adapter, bag[t], heap, name).err = "nil"
              /\ ~MustService(adapter, bag[t], heap, name).panic
        /\ \E name \in Names :
              /\ Service(adapter, bag[t], heap, name).err # "nil"
              /\ MustService(adapter, bag[t], heap, name).panic

====
